---- MODULE Spec2Model ----
(***************************************************************************)
(* Grid aggregation scripts of ticketlesschicago:                          *)
(*   PN = scripts/process-neighborhood-data.py  (CSV: 311, crimes, crashes)*)
(*   PA = scripts/process-additional-data.py    (CSV: permits, licenses,   *)
(*        camera violations, potholes)                                     *)
(*   UN = scripts/update-neighborhood-data.py   (API: seven datasets)      *)
(* A processor is modelled row by row: open/fetch, one fold step per row,  *)
(* then filter + score + sort + serialize.  Field values of a row are the  *)
(* raw strings of the CSV/JSON source; MISSING is an absent key and NONE a *)
(* key whose value is None/null.                                           *)
(***************************************************************************)
EXTENDS Integers, Sequences, FiniteSets, TLC

VARIABLES
    script,     \* "PN" | "PA" | "UN": the script being executed
    mode,       \* "unit": one processor function is called; "main": the script's __main__
    feed,       \* which family of input records the source delivers in this run
    pidx,       \* index of the current processor in Processors(script)
    pc,         \* position inside the current processor / main loop
    ti,         \* UN process_311: index of the (category, sr_type) pair being fetched
    blocks,     \* the processor's `blocks` dict, in insertion order
    rl_cameras, \* PA process_camera_violations: the red-light dict once its file is read
    fetches,    \* outcomes ("ok" / "error") of the fetch_data calls of the current processor
    result,     \* how the current processor call ended, and the output it built
    files,      \* per output file of public/: untouched, written, or left partial
    success,    \* UN main(): the `success` flag ("unset" before the loop)
    exitcode,   \* process exit status; -1 while running
    calls       \* processors invoked so far, in order

\* direct-mail-campaign.py
VARIABLES
    args,       \* the parsed command line: test, dry_run, tier, limit, csv
    api_key,    \* os.environ.get('LOB_API_KEY')
    input,      \* the campaign file the run reads: whether it exists, its header, its rows
    mpc,        \* position inside main()
    rows,       \* the loaded rows, after the limit
    row_i,      \* `i`: index of the loop over the rows, or over the test segments
    sent,       \* postcards Lob accepted
    errors,     \* postcards Lob refused
    lob,        \* the requests issued to POST /v1/postcards, in order, with Lob's answer
    outcome     \* how main() ended

gridvars == <<script, mode, feed, pidx, pc, ti, blocks, rl_cameras, fetches, result, files,
              success, exitcode, calls>>

mailvars == <<args, api_key, input, mpc, rows, row_i, sent, errors, lob, outcome>>

vars == <<gridvars, mailvars>>

\* the direct-mail script is not running
MailIdle ==
    /\ args = [test |-> FALSE, dry_run |-> FALSE, tier |-> "<None>", limit |-> <<>>, csv |-> FALSE]
    /\ api_key = "<None>"
    /\ input = [exists |-> FALSE, header |-> "full", rows |-> <<>>]
    /\ mpc = "idle"
    /\ rows = <<>>
    /\ row_i = 0
    /\ sent = 0
    /\ errors = 0
    /\ lob = <<>>
    /\ outcome = "idle"

(***************************************************************************)
(* Bounds of the model.                                                    *)
(***************************************************************************)
MaxRows == 5         \* records accepted by one processor call in unit mode
LatchRows == 3       \* the same, in the feeds that vary ward and address, the label, or ties
SortRows == 7        \* the same, in the feed that fills two cells for the sort
MainRows == 2        \* records accepted by one processor call under __main__
MaxViolations == 120 \* camera files: records are accepted while the violations read stay below

(***************************************************************************)
(* Python values.                                                          *)
(***************************************************************************)
NONE == "<None>"
MISSING == "<missing>"

\* row.get(key, default)
Get(r, f, default) == IF r[f] = MISSING THEN default ELSE r[f]

\* `x or d` for a string-or-None x (the int default 0 is written "0": float(0) = float("0"))
Or(x, d) == IF x = NONE \/ x = "" THEN d ELSE x

\* truth value of a string-or-None
Truthy(x) == x # NONE /\ x # ""

(***************************************************************************)
(* float() of a coordinate field.  Values are in units of 0.0001 degree.   *)
(* Anything that is not a decimal literal raises (ValueError, or TypeError *)
(* for None).                                                              *)
(***************************************************************************)
CoordLiterals ==
    [ lit : {"0"},      v : {0} ] \cup
    [ lit : {"41.6"},   v : {416000} ] \cup
    [ lit : {"41.880"}, v : {418800} ] \cup
    [ lit : {"41.881"}, v : {418810} ] \cup
    [ lit : {"41.882"}, v : {418820} ] \cup
    [ lit : {"41.883"}, v : {418830} ] \cup
    [ lit : {"41.884"}, v : {418840} ] \cup
    [ lit : {"42.1"},   v : {421000} ] \cup
    [ lit : {"43.0"},   v : {430000} ] \cup
    [ lit : {"-87.5"},   v : {-875000} ] \cup
    [ lit : {"-87.624"}, v : {-876240} ] \cup
    [ lit : {"-87.626"}, v : {-876260} ] \cup
    [ lit : {"-87.630"}, v : {-876300} ] \cup
    [ lit : {"-87.632"}, v : {-876320} ] \cup
    [ lit : {"-87.633"}, v : {-876330} ] \cup
    [ lit : {"-88.0"},   v : {-880000} ]

float_coord(x) ==
    IF \E l \in CoordLiterals : l.lit = x
    THEN [ok |-> TRUE, v |-> (CHOOSE l \in CoordLiterals : l.lit = x).v]
    ELSE [ok |-> FALSE, v |-> 0]

\* 41.6 < lat < 42.1 and -88.0 < lng < -87.5
InBox(lat, lng) == 416000 < lat /\ lat < 421000 /\ -880000 < lng /\ lng < -875000

\* a round() that takes the ceiling of n/d + 1/2, which moves an integer up by one
RoundCeilHalf(n, d) == -((-(2 * n + d)) \div (2 * d))

\* a round() that rounds an exact half up: floor(n/d + 1/2)
RoundHalfUp(n, d) == (2 * n + d) \div (2 * d)

(***************************************************************************)
(* round(): Python 3 rounds an exact half to the even integer.  n/d with   *)
(* d > 0.                                                                  *)
(***************************************************************************)
PyRound(n, d) ==
    LET q == n \div d            \* floor
        r2 == 2 * (n - q * d)    \* twice the fractional part, scaled by d
    IN  IF r2 < d THEN q
        ELSE IF r2 > d THEN q + 1
        ELSE IF q % 2 = 0 THEN q ELSE q + 1

\* BLOCK_SIZE in units of 0.0001 degree
BLOCK_SIZE_PN == 20
BLOCK_SIZE_UN == 20
BLOCK_SIZE_PA == 40

round_to_block(lat, lng, bs) == <<PyRound(lat, bs) * bs, PyRound(lng, bs) * bs>>

(***************************************************************************)
(* dict helpers: a dict is a sequence of [key, c] entries in insertion     *)
(* order.                                                                  *)
(***************************************************************************)
Idx(d, k) == IF \E j \in 1..Len(d) : d[j].key = k
             THEN CHOOSE j \in 1..Len(d) : d[j].key = k
             ELSE 0

Has(d, k) == Idx(d, k) # 0

\* a lookup that adds a default entry whether or not the key is present
TouchAppend(d, k, dflt) == Append(d, [key |-> k, c |-> dflt])

\* defaultdict lookup d[k]: creates the default entry on a miss
Touch(d, k, dflt) == IF Has(d, k) THEN d ELSE Append(d, [key |-> k, c |-> dflt])

Cell(d, k) == d[Idx(d, k)].c

SetCell(d, k, c) == [d EXCEPT ![Idx(d, k)].c = c]

\* dict.get(k, 0) on a category map
CatGet(cats, k) == IF Has(cats, k) THEN Cell(cats, k) ELSE 0

\* `=` where the code has `+=`: a category is marked, not counted
CatMark(cats, k) == LET t == Touch(cats, k, 0) IN SetCell(t, k, 1)

\* categories[k] += 1 on a defaultdict(int)
CatInc(cats, k) == LET t == Touch(cats, k, 0) IN SetCell(t, k, Cell(t, k) + 1)

\* `if not cell[f]: cell[f] = v`
\* a setter that lets every record overwrite the field
LatchOverwrite(old, v) == v

Latch(old, v) == IF Truthy(old) THEN old ELSE v

(***************************************************************************)
(* Strings.  A label is kept in a row as a string; its characters (Chars)  *)
(* are what `in`, upper() and strip() work on.                             *)
(***************************************************************************)
LowerCase == <<"a","b","c","d","e","f","g","h","i","j","k","l","m","n","o","p","q","r","s","t","u","v","w","x","y","z">>
UpperCase == <<"A","B","C","D","E","F","G","H","I","J","K","L","M","N","O","P","Q","R","S","T","U","V","W","X","Y","Z">>

UpperChar(c) == IF \E j \in 1..Len(LowerCase) : LowerCase[j] = c
                THEN UpperCase[CHOOSE j \in 1..Len(LowerCase) : LowerCase[j] = c]
                ELSE c

\* str.upper()
Upper(cs) == [j \in 1..Len(cs) |-> UpperChar(cs[j])]

\* `needle in hay`
Contains(hay, needle) ==
    \E j \in 1..(Len(hay) - Len(needle) + 1) : SubSeq(hay, j, j + Len(needle) - 1) = needle

\* str.strip()
RECURSIVE LStrip(_)
LStrip(cs) == IF cs # <<>> /\ Head(cs) = " " THEN LStrip(Tail(cs)) ELSE cs
RECURSIVE RStrip(_)
RStrip(cs) == IF cs # <<>> /\ cs[Len(cs)] = " " THEN RStrip(SubSeq(cs, 1, Len(cs) - 1)) ELSE cs
Strip(cs) == RStrip(LStrip(cs))

\* RELEVANT_CATEGORIES / RELEVANT_TYPES (311), in dict order
RELEVANT_CATEGORIES == <<
    [cat |-> "infrastructure", kws |-> <<
        <<"P","o","t","h","o","l","e"," ","i","n"," ","S","t","r","e","e","t"," ","C","o","m","p","l","a","i","n","t">>,   \* 'Pothole in Street Complaint'
        <<"A","l","l","e","y"," ","P","o","t","h","o","l","e"," ","C","o","m","p","l","a","i","n","t">>,   \* 'Alley Pothole Complaint'
        <<"S","t","r","e","e","t"," ","L","i","g","h","t"," ","O","u","t"," ","C","o","m","p","l","a","i","n","t">>,   \* 'Street Light Out Complaint'
        <<"A","l","l","e","y"," ","L","i","g","h","t"," ","O","u","t"," ","C","o","m","p","l","a","i","n","t">>,   \* 'Alley Light Out Complaint'
        <<"T","r","a","f","f","i","c"," ","S","i","g","n","a","l"," ","O","u","t"," ","C","o","m","p","l","a","i","n","t">>,   \* 'Traffic Signal Out Complaint'
        <<"S","i","g","n"," ","R","e","p","a","i","r"," ","R","e","q","u","e","s","t">>,   \* 'Sign Repair Request'
        <<"S","i","d","e","w","a","l","k"," ","I","n","s","p","e","c","t","i","o","n"," ","R","e","q","u","e","s","t">>   \* 'Sidewalk Inspection Request'
    >>],
    [cat |-> "sanitation", kws |-> <<
        <<"G","r","a","f","f","i","t","i"," ","R","e","m","o","v","a","l"," ","R","e","q","u","e","s","t">>,   \* 'Graffiti Removal Request'
        <<"G","a","r","b","a","g","e"," ","C","a","r","t"," ","M","a","i","n","t","e","n","a","n","c","e">>,   \* 'Garbage Cart Maintenance'
        <<"F","l","y"," ","D","u","m","p","i","n","g"," ","C","o","m","p","l","a","i","n","t">>,   \* 'Fly Dumping Complaint'
        <<"S","a","n","i","t","a","t","i","o","n"," ","C","o","d","e"," ","V","i","o","l","a","t","i","o","n">>,   \* 'Sanitation Code Violation'
        <<"D","e","a","d"," ","A","n","i","m","a","l"," ","P","i","c","k","-","U","p"," ","R","e","q","u","e","s","t">>   \* 'Dead Animal Pick-Up Request'
    >>],
    [cat |-> "pests", kws |-> <<
        <<"R","o","d","e","n","t"," ","B","a","i","t","i","n","g","/","R","a","t"," ","C","o","m","p","l","a","i","n","t">>,   \* 'Rodent Baiting/Rat Complaint'
        <<"S","t","r","a","y"," ","A","n","i","m","a","l"," ","C","o","m","p","l","a","i","n","t">>   \* 'Stray Animal Complaint'
    >>],
    [cat |-> "vehicles", kws |-> <<
        <<"A","b","a","n","d","o","n","e","d"," ","V","e","h","i","c","l","e"," ","C","o","m","p","l","a","i","n","t">>   \* 'Abandoned Vehicle Complaint'
    >>],
    [cat |-> "trees", kws |-> <<
        <<"T","r","e","e"," ","T","r","i","m"," ","R","e","q","u","e","s","t">>,   \* 'Tree Trim Request'
        <<"T","r","e","e"," ","D","e","b","r","i","s"," ","C","l","e","a","n","-","U","p"," ","R","e","q","u","e","s","t">>,   \* 'Tree Debris Clean-Up Request'
        <<"T","r","e","e"," ","E","m","e","r","g","e","n","c","y">>,   \* 'Tree Emergency'
        <<"W","e","e","d"," ","R","e","m","o","v","a","l"," ","R","e","q","u","e","s","t">>   \* 'Weed Removal Request'
    >>],
    [cat |-> "water", kws |-> <<
        <<"W","a","t","e","r"," ","O","n"," ","S","t","r","e","e","t"," ","C","o","m","p","l","a","i","n","t">>,   \* 'Water On Street Complaint'
        <<"S","e","w","e","r"," ","C","l","e","a","n","i","n","g"," ","I","n","s","p","e","c","t","i","o","n"," ","R","e","q","u","e","s","t">>,   \* 'Sewer Cleaning Inspection Request'
        <<"C","h","e","c","k"," ","f","o","r"," ","L","e","a","k">>   \* 'Check for Leak'
    >>]
>>

\* CRIME_CATEGORIES, in dict order
CRIME_CATEGORIES == <<
    [cat |-> "violent", kws |-> <<
        <<"H","O","M","I","C","I","D","E">>,   \* 'HOMICIDE'
        <<"R","O","B","B","E","R","Y">>,   \* 'ROBBERY'
        <<"A","S","S","A","U","L","T">>,   \* 'ASSAULT'
        <<"B","A","T","T","E","R","Y">>,   \* 'BATTERY'
        <<"C","R","I","M","I","N","A","L"," ","S","E","X","U","A","L"," ","A","S","S","A","U","L","T">>   \* 'CRIMINAL SEXUAL ASSAULT'
    >>],
    [cat |-> "property", kws |-> <<
        <<"T","H","E","F","T">>,   \* 'THEFT'
        <<"B","U","R","G","L","A","R","Y">>,   \* 'BURGLARY'
        <<"M","O","T","O","R"," ","V","E","H","I","C","L","E"," ","T","H","E","F","T">>,   \* 'MOTOR VEHICLE THEFT'
        <<"C","R","I","M","I","N","A","L"," ","D","A","M","A","G","E">>,   \* 'CRIMINAL DAMAGE'
        <<"A","R","S","O","N">>   \* 'ARSON'
    >>],
    [cat |-> "drugs", kws |-> <<
        <<"N","A","R","C","O","T","I","C","S">>   \* 'NARCOTICS'
    >>],
    [cat |-> "weapons", kws |-> <<
        <<"W","E","A","P","O","N","S"," ","V","I","O","L","A","T","I","O","N">>   \* 'WEAPONS VIOLATION'
    >>],
    [cat |-> "other", kws |-> <<
        <<"O","T","H","E","R"," ","O","F","F","E","N","S","E">>,   \* 'OTHER OFFENSE'
        <<"D","E","C","E","P","T","I","V","E"," ","P","R","A","C","T","I","C","E">>,   \* 'DECEPTIVE PRACTICE'
        <<"C","R","I","M","I","N","A","L"," ","T","R","E","S","P","A","S","S">>   \* 'CRIMINAL TRESPASS'
    >>]
>>

\* PERMIT_TYPES, in dict order
PERMIT_TYPES == <<
    [cat |-> "new_construction", kws |-> <<
        <<"N","E","W"," ","C","O","N","S","T","R","U","C","T","I","O","N">>,   \* 'NEW CONSTRUCTION'
        <<"P","E","R","M","I","T"," ","-"," ","N","E","W"," ","C","O","N","S","T","R","U","C","T","I","O","N">>   \* 'PERMIT - NEW CONSTRUCTION'
    >>],
    [cat |-> "renovation", kws |-> <<
        <<"P","E","R","M","I","T"," ","-"," ","R","E","N","O","V","A","T","I","O","N","/","A","L","T","E","R","A","T","I","O","N">>,   \* 'PERMIT - RENOVATION/ALTERATION'
        <<"R","E","N","O","V","A","T","I","O","N">>,   \* 'RENOVATION'
        <<"A","L","T","E","R","A","T","I","O","N">>   \* 'ALTERATION'
    >>],
    [cat |-> "electrical", kws |-> <<
        <<"P","E","R","M","I","T"," ","-"," ","E","L","E","C","T","R","I","C","A","L">>,   \* 'PERMIT - ELECTRICAL'
        <<"E","L","E","C","T","R","I","C","A","L">>   \* 'ELECTRICAL'
    >>],
    [cat |-> "plumbing", kws |-> <<
        <<"P","E","R","M","I","T"," ","-"," ","P","L","U","M","B","I","N","G">>   \* 'PERMIT - PLUMBING'
    >>],
    [cat |-> "signs", kws |-> <<
        <<"P","E","R","M","I","T"," ","-"," ","S","I","G","N","S">>,   \* 'PERMIT - SIGNS'
        <<"S","I","G","N">>   \* 'SIGN'
    >>],
    [cat |-> "demolition", kws |-> <<
        <<"P","E","R","M","I","T"," ","-"," ","W","R","E","C","K","I","N","G","/","D","E","M","O","L","I","T","I","O","N">>,   \* 'PERMIT - WRECKING/DEMOLITION'
        <<"W","R","E","C","K","I","N","G">>,   \* 'WRECKING'
        <<"D","E","M","O","L","I","T","I","O","N">>   \* 'DEMOLITION'
    >>],
    [cat |-> "other", kws |-> <<
    >>]
>>

\* LICENSE_TYPES, in dict order
LICENSE_TYPES == <<
    [cat |-> "food", kws |-> <<
        <<"R","E","T","A","I","L"," ","F","O","O","D">>,   \* 'RETAIL FOOD'
        <<"F","O","O","D">>,   \* 'FOOD'
        <<"R","E","S","T","A","U","R","A","N","T">>,   \* 'RESTAURANT'
        <<"T","A","V","E","R","N">>,   \* 'TAVERN'
        <<"L","I","Q","U","O","R">>   \* 'LIQUOR'
    >>],
    [cat |-> "retail", kws |-> <<
        <<"R","E","T","A","I","L">>,   \* 'RETAIL'
        <<"S","A","L","E","S">>   \* 'SALES'
    >>],
    [cat |-> "service", kws |-> <<
        <<"S","E","R","V","I","C","E">>,   \* 'SERVICE'
        <<"R","E","P","A","I","R">>,   \* 'REPAIR'
        <<"S","A","L","O","N">>,   \* 'SALON'
        <<"B","A","R","B","E","R">>   \* 'BARBER'
    >>],
    [cat |-> "entertainment", kws |-> <<
        <<"E","N","T","E","R","T","A","I","N","M","E","N","T">>,   \* 'ENTERTAINMENT'
        <<"M","U","S","I","C">>,   \* 'MUSIC'
        <<"A","M","U","S","E","M","E","N","T">>,   \* 'AMUSEMENT'
        <<"P","U","B","L","I","C"," ","P","L","A","C","E">>   \* 'PUBLIC PLACE'
    >>],
    [cat |-> "tobacco", kws |-> <<
        <<"T","O","B","A","C","C","O">>,   \* 'TOBACCO'
        <<"V","A","P","E">>   \* 'VAPE'
    >>],
    [cat |-> "other", kws |-> <<
    >>]
>>

\* HIGH_RISK_KEYWORDS
HIGH_RISK_KEYWORDS == <<
    <<"F","I","R","E">>,   \* 'FIRE'
    <<"S","M","O","K","E">>,   \* 'SMOKE'
    <<"E","L","E","C","T","R","I","C","A","L">>,   \* 'ELECTRICAL'
    <<"H","A","Z","A","R","D">>,   \* 'HAZARD'
    <<"U","N","S","A","F","E">>,   \* 'UNSAFE'
    <<"D","A","N","G","E","R">>,   \* 'DANGER'
    <<"S","T","R","U","C","T","U","R","A","L">>,   \* 'STRUCTURAL'
    <<"E","G","R","E","S","S">>,   \* 'EGRESS'
    <<"E","M","E","R","G","E","N","C","Y">>,   \* 'EMERGENCY'
    <<"C","O","N","D","E","M","N","E","D">>,   \* 'CONDEMNED'
    <<"V","A","C","A","N","T">>   \* 'VACANT'
>>

\* 'INFORMATION ONLY' and 'Aircraft'
INFORMATION_ONLY == <<"I","N","F","O","R","M","A","T","I","O","N"," ","O","N","L","Y">>
AIRCRAFT == <<"A","i","r","c","r","a","f","t">>

\* the characters of the label strings that occur in the modelled rows
Chars(s) ==
    CASE s = "METER" -> <<"M","E","T","E","R">>
      [] s = "CENTRAL" -> <<"C","E","N","T","R","A","L">>
      [] s = "NON-CENTRAL" -> <<"N","O","N","-","C","E","N","T","R","A","L">>
      [] s = "STREET CLEANING" -> <<"S","T","R","E","E","T"," ","C","L","E","A","N","I","N","G">>
      [] s = "PERMIT" -> <<"P","E","R","M","I","T">>
      [] s = "EXPIRED PLATE" -> <<"E","X","P","I","R","E","D"," ","P","L","A","T","E">>
      [] s = "REGISTRATION" -> <<"R","E","G","I","S","T","R","A","T","I","O","N">>
      [] s = "CITY STICKER" -> <<"C","I","T","Y"," ","S","T","I","C","K","E","R">>
      [] s = "Expired Meter Central Business District" -> <<"E","x","p","i","r","e","d"," ","M","e","t","e","r"," ","C","e","n","t","r","a","l"," ","B","u","s","i","n","e","s","s"," ","D","i","s","t","r","i","c","t">>
      [] s = "Residential Permit Parking" -> <<"R","e","s","i","d","e","n","t","i","a","l"," ","P","e","r","m","i","t"," ","P","a","r","k","i","n","g">>
      [] s = "Pothole in Street Complaint" -> <<"P","o","t","h","o","l","e"," ","i","n"," ","S","t","r","e","e","t"," ","C","o","m","p","l","a","i","n","t">>
      [] s = "Graffiti Removal Request" -> <<"G","r","a","f","f","i","t","i"," ","R","e","m","o","v","a","l"," ","R","e","q","u","e","s","t">>
      [] s = "Sign Repair Request - Stop Sign" -> <<"S","i","g","n"," ","R","e","p","a","i","r"," ","R","e","q","u","e","s","t"," ","-"," ","S","t","o","p"," ","S","i","g","n">>
      [] s = "POTHOLE IN STREET COMPLAINT" -> <<"P","O","T","H","O","L","E"," ","I","N"," ","S","T","R","E","E","T"," ","C","O","M","P","L","A","I","N","T">>
      [] s = "Yard Waste Pick-Up Request" -> <<"Y","a","r","d"," ","W","a","s","t","e"," ","P","i","c","k","-","U","p"," ","R","e","q","u","e","s","t">>
      [] s = "Aircraft Noise Complaint" -> <<"A","i","r","c","r","a","f","t"," ","N","o","i","s","e"," ","C","o","m","p","l","a","i","n","t">>
      [] s = "311 INFORMATION ONLY CALL" -> <<"3","1","1"," ","I","N","F","O","R","M","A","T","I","O","N"," ","O","N","L","Y"," ","C","A","L","L">>
      [] s = "THEFT" -> <<"T","H","E","F","T">>
      [] s = "BATTERY" -> <<"B","A","T","T","E","R","Y">>
      [] s = " ASSAULT " -> <<" ","A","S","S","A","U","L","T"," ">>
      [] s = "theft" -> <<"t","h","e","f","t">>
      [] s = "AGGRAVATED ASSAULT" -> <<"A","G","G","R","A","V","A","T","E","D"," ","A","S","S","A","U","L","T">>
      [] s = "STALKING" -> <<"S","T","A","L","K","I","N","G">>
      [] s = "NARCOTICS" -> <<"N","A","R","C","O","T","I","C","S">>
      [] s = "PERMIT - ELECTRICAL" -> <<"P","E","R","M","I","T"," ","-"," ","E","L","E","C","T","R","I","C","A","L">>
      [] s = "Permit - Signs" -> <<"P","e","r","m","i","t"," ","-"," ","S","i","g","n","s">>
      [] s = "PERMIT - SIGN RENOVATION" -> <<"P","E","R","M","I","T"," ","-"," ","S","I","G","N"," ","R","E","N","O","V","A","T","I","O","N">>
      [] s = "PERMIT - EASY PERMIT PROCESS" -> <<"P","E","R","M","I","T"," ","-"," ","E","A","S","Y"," ","P","E","R","M","I","T"," ","P","R","O","C","E","S","S">>
      [] s = "Retail Food Establishment" -> <<"R","e","t","a","i","l"," ","F","o","o","d"," ","E","s","t","a","b","l","i","s","h","m","e","n","t">>
      [] s = "Tobacco Retail Over Counter" -> <<"T","o","b","a","c","c","o"," ","R","e","t","a","i","l"," ","O","v","e","r"," ","C","o","u","n","t","e","r">>
      [] s = "Limited Business License" -> <<"L","i","m","i","t","e","d"," ","B","u","s","i","n","e","s","s"," ","L","i","c","e","n","s","e">>
      [] s = "Tavern" -> <<"T","a","v","e","r","n">>
      [] s = "SMOKE DETECTOR MISSING" -> <<"S","M","O","K","E"," ","D","E","T","E","C","T","O","R"," ","M","I","S","S","I","N","G">>
      [] s = "REPAIR PORCH" -> <<"R","E","P","A","I","R"," ","P","O","R","C","H">>
      [] s = "no smoking sign" -> <<"n","o"," ","s","m","o","k","i","n","g"," ","s","i","g","n">>
      [] s = "CN190019" -> <<"C","N","1","9","0","0","1","9">>
      [] s = "EV1110" -> <<"E","V","1","1","1","0">>
      [] s = "OPEN" -> <<"O","P","E","N">>
      [] s = "COMPLIED" -> <<"C","O","M","P","L","I","E","D">>
      [] s = "open" -> <<"o","p","e","n">>
      [] s = "ISSUED" -> <<"I","S","S","U","E","D">>
      [] s = "PERMIT ISSUED" -> <<"P","E","R","M","I","T"," ","I","S","S","U","E","D">>
      [] s = "COMPLETE" -> <<"C","O","M","P","L","E","T","E">>
      [] s = "CANCELLED" -> <<"C","A","N","C","E","L","L","E","D">>
      [] s = "AAI" -> <<"A","A","I">>
      [] s = "AAC" -> <<"A","A","C">>
      [] s = "REV" -> <<"R","E","V">>
      [] s = "ACTIVE" -> <<"A","C","T","I","V","E">>
      [] s = "Y" -> <<"Y">>
      [] s = "N" -> <<"N">>
      [] s = "y" -> <<"y">>
      [] s = "true" -> <<"t","r","u","e">>
      [] s = "TRUE" -> <<"T","R","U","E">>
      [] s = "1" -> <<"1">>
      [] s = "None" -> <<"N","o","n","e">>
      [] s = "false" -> <<"f","a","l","s","e">>
      [] s = "" -> <<>>

(***************************************************************************)
(* Classification.                                                         *)
(***************************************************************************)
\* type_to_category: the (keyword, category) pairs of a table in insertion order
RECURSIVE Flatten(_)
Flatten(tbl) ==
    IF tbl = <<>> THEN <<>>
    ELSE [j \in 1..Len(Head(tbl).kws) |-> [kw |-> Head(tbl).kws[j], cat |-> Head(tbl).cat]]
         \o Flatten(Tail(tbl))

\* a lookup without the `break`/`return`: the last pair whose keyword occurs in cs wins
LastMatch(tbl, cs) ==
    LET f == Flatten(tbl)
        hits == {j \in 1..Len(f) : Contains(cs, f[j].kw)}
    IN  IF hits = {} THEN NONE
        ELSE f[CHOOSE j \in hits : \A k \in hits : j >= k].cat

\* first (keyword, category) pair, in table order, whose keyword occurs in cs; NONE if none
FirstMatch(tbl, cs) ==
    LET f == Flatten(tbl)
        hits == {j \in 1..Len(f) : Contains(cs, f[j].kw)}
    IN  IF hits = {} THEN NONE
        ELSE f[CHOOSE j \in hits : \A k \in hits : j <= k].cat

\* PN process_311: `for type_name, cat in type_to_category.items(): if type_name in sr_type`
Category311(sr_type) == FirstMatch(RELEVANT_CATEGORIES, Chars(sr_type))

\* process_crimes: type_to_category.get(crime_type, 'other') on the stripped label
CategoryCrime(crime_type) ==
    LET f == Flatten(CRIME_CATEGORIES)
        cs == Strip(Chars(crime_type))
    IN  IF \E j \in 1..Len(f) : f[j].kw = cs
        THEN f[CHOOSE j \in 1..Len(f) : f[j].kw = cs].cat
        ELSE "other"

\* PA get_permit_type
get_permit_type(permit_type_str) ==
    LET pt == IF Truthy(permit_type_str) THEN Upper(Chars(permit_type_str)) ELSE <<>>
        m == FirstMatch(PERMIT_TYPES, pt)
    IN  IF m = NONE THEN "other" ELSE m

\* PA get_license_type
get_license_type(desc) ==
    LET d == IF Truthy(desc) THEN Upper(Chars(desc)) ELSE <<>>
        m == FirstMatch(LICENSE_TYPES, d)
    IN  IF m = NONE THEN "other" ELSE m

\* any(kw in desc for kw in HIGH_RISK_KEYWORDS)
HighRisk(desc) == \E j \in 1..Len(HIGH_RISK_KEYWORDS) : Contains(desc, HIGH_RISK_KEYWORDS[j])

(***************************************************************************)
(* int() and float() of numeric fields.                                    *)
(***************************************************************************)
IntLiterals ==
    [ lit : {"0"},  v : {0} ] \cup [ lit : {"1"},  v : {1} ] \cup
    [ lit : {"2"},  v : {2} ] \cup [ lit : {"10"}, v : {10} ] \cup
    [ lit : {"40"}, v : {40} ] \cup [ lit : {"60"}, v : {60} ] \cup
    [ lit : {"150"}, v : {150} ] \cup [ lit : {"-3"}, v : {-3} ]

\* int(x): ValueError for anything that is not an integer literal ("2.0", "abc", "")
int_(x) ==
    IF \E l \in IntLiterals : l.lit = x
    THEN [ok |-> TRUE, v |-> (CHOOSE l \in IntLiterals : l.lit = x).v]
    ELSE [ok |-> FALSE, v |-> 0]

(***************************************************************************)
(* A Python float that holds an integral value is written                  *)
(* [big |-> k, small |-> r], standing for k * 2^53 + r with k >= 0 and |r| *)
(* far below 2^53.  Addition is IEEE-754 binary64: the exact sum rounded   *)
(* to 53 significant bits, ties to even.                                   *)
(***************************************************************************)
Dbl(k, r) == [big |-> k, small |-> r, inf |-> FALSE]

DZero == Dbl(0, 0)

\* float('inf')
DInf == [big |-> 0, small |-> 0, inf |-> TRUE]

\* spacing of binary64 values around k * 2^53 + r (k >= 1)
Ulp(k, r) ==
    LET p2 == IF k = 1 THEN 1 ELSE IF k <= 3 THEN 2 ELSE IF k <= 7 THEN 4 ELSE 8
        pow == k \in {1, 2, 4, 8}
    IN  IF r < 0 /\ pow THEN p2 ELSE 2 * p2

RoundDbl(k, r) == IF k = 0 THEN Dbl(0, r) ELSE Dbl(k, PyRound(r, Ulp(k, r)) * Ulp(k, r))

\* a + b on floats
DAdd(a, b) == IF a.inf \/ b.inf THEN DInf ELSE RoundDbl(a.big + b.big, a.small + b.small)

CostLiterals ==
    [ lit : {"0"},       v : {Dbl(0, 0)} ] \cup
    [ lit : {"1"},       v : {Dbl(0, 1)} ] \cup
    [ lit : {"250000"},  v : {Dbl(0, 250000)} ] \cup
    [ lit : {"1000000"}, v : {Dbl(0, 1000000)} ] \cup
    [ lit : {"-3000000"}, v : {Dbl(0, -3000000)} ] \cup
    [ lit : {"9007199254740992"}, v : {Dbl(1, 0)} ] \cup  \* 2^53
    [ lit : {"inf"},     v : {DInf} ]

\* float(x) of a cost field: ValueError for "$1,000,000", "abc", ""
float_cost(x) ==
    IF \E l \in CostLiterals : l.lit = x
    THEN [ok |-> TRUE, v |-> (CHOOSE l \in CostLiterals : l.lit = x).v]
    ELSE [ok |-> FALSE, v |-> DZero]

\* s.replace('$', '').replace(',', '')
StripCurrency(s) ==
    CASE s = "$1,000,000" -> "1000000"
      [] s = "$250,000"   -> "250000"
      [] s = "$"          -> ""
      [] OTHER            -> s

(***************************************************************************)
(* Dates.  A parsed timestamp is [day, hour]: days relative to the day of  *)
(* processing (2025-12-24) and the hour of the day.  datetime.now() is     *)
(* noon of day 0.                                                          *)
(***************************************************************************)
Now == [day |-> 0, hour |-> 12]

Hours(t) == t.day * 24 + t.hour

\* CSV timestamps, '%m/%d/%Y' optionally followed by a time
CsvDates ==
    [ lit : {"12/20/2025"},             day : {-4},   hour : {0},  time : {FALSE} ] \cup
    [ lit : {"12/20/2025 09:00:00 AM"}, day : {-4},   hour : {9},  time : {TRUE} ] \cup
    [ lit : {"09/25/2025 06:00:00 PM"}, day : {-90},  hour : {18}, time : {TRUE} ] \cup
    [ lit : {"09/25/2025 06:00:00 AM"}, day : {-90},  hour : {6},  time : {TRUE} ] \cup
    [ lit : {"09/24/2025 09:00:00 AM"}, day : {-91},  hour : {9},  time : {TRUE} ] \cup
    [ lit : {"12/24/2024"},             day : {-365}, hour : {0},  time : {FALSE} ] \cup
    [ lit : {"06/01/2024"},             day : {-571}, hour : {0},  time : {FALSE} ] \cup
    [ lit : {"06/01/2024 09:00:00 AM"}, day : {-571}, hour : {9},  time : {TRUE} ]

\* API timestamps, ISO 8601 ("2025-12-20T09:00:00.000")
IsoDates ==
    [ lit : {"2025-12-20T09:00:00.000"}, day : {-4},  hour : {9} ] \cup
    [ lit : {"2025-09-25T06:00:00.000"}, day : {-90}, hour : {6} ] \cup
    [ lit : {"2025-09-24T09:00:00.000"}, day : {-91}, hour : {9} ]

\* datetime.strptime(s.split()[0], '%m/%d/%Y'): midnight of the day; ValueError otherwise
strptime_split(s) ==
    IF \E l \in CsvDates : l.lit = s
    THEN [ok |-> TRUE, t |-> [day |-> (CHOOSE l \in CsvDates : l.lit = s).day, hour |-> 0]]
    ELSE [ok |-> FALSE, t |-> Now]

\* datetime.strptime(s, '%m/%d/%Y'): a trailing time is unconverted data (ValueError)
strptime_date(s) ==
    IF \E l \in CsvDates : l.lit = s /\ ~l.time
    THEN [ok |-> TRUE, t |-> [day |-> (CHOOSE l \in CsvDates : l.lit = s).day, hour |-> 0]]
    ELSE [ok |-> FALSE, t |-> Now]

\* dt >= datetime.now() - timedelta(days=window)
NotBeforeCutoff(t, window) == Hours(t) >= Hours(Now) - window * 24

\* the characters of the created_date strings that occur in the modelled rows
StampChars(s) ==
    CASE s = "2025-12-20T09:00:00.000" -> <<"2","0","2","5","-","1","2","-","2","0","T","0","9",":","0","0",":","0","0",".","0","0","0">>
      [] s = "2025-09-25T06:00:00.000" -> <<"2","0","2","5","-","0","9","-","2","5","T","0","6",":","0","0",":","0","0",".","0","0","0">>
      [] s = "2025-09-24T09:00:00.000" -> <<"2","0","2","5","-","0","9","-","2","4","T","0","9",":","0","0",":","0","0",".","0","0","0">>
      [] s = "abc" -> <<"a","b","c">>
      [] s = "9/1/2020" -> <<"9","/","1","/","2","0","2","0">>
      [] s = "2025" -> <<"2","0","2","5">>

\* (now - timedelta(days=window)).strftime('%Y-%m-%dT00:00:00'): day -90 is 2025-09-25
CutoffStamp(window) == <<"2","0","2","5","-","0","9","-","2","5","T","0","0",":","0","0",":","0","0">>

\* the characters of the timestamps in the order of their code points
CodeOrder == <<"-", ".", "/", "0", "1", "2", "3", "4", "5", "6", "7", "8", "9", ":", "T",
               "a", "b", "c">>

Ord(c) == CHOOSE j \in 1..Len(CodeOrder) : CodeOrder[j] = c

\* a >= b on str: the first differing character decides, a prefix is the smaller
RECURSIVE StrGeq(_, _)
StrGeq(a, b) ==
    IF b = <<>> THEN TRUE
    ELSE IF a = <<>> THEN FALSE
    ELSE IF Ord(Head(a)) > Ord(Head(b)) THEN TRUE
    ELSE IF Ord(Head(a)) < Ord(Head(b)) THEN FALSE
    ELSE StrGeq(Tail(a), Tail(b))

\* created >= (now - 90 days).strftime('%Y-%m-%dT00:00:00'), compared as strings
IsoNotBefore(s, window) == StrGeq(StampChars(s), CutoffStamp(window))

(***************************************************************************)
(* The per-row loop bodies.  Each takes the blocks dict and a row and      *)
(* gives [b, err]: the dict after the row, and whether an exception left   *)
(* the loop body (after whatever the body had already changed).            *)
(* Row fields: lat, lng, label, ward, addr, n1, n2, date, status; the      *)
(* column each one stands for is named at its use.                         *)
(***************************************************************************)
Skip(b) == [b |-> b, err |-> FALSE]
Raise(b) == [b |-> b, err |-> TRUE]
Done(b) == [b |-> b, err |-> FALSE]

\* try: lat = float(..); lng = float(..) / except: continue / bounding box / round_to_block
AcceptCoords(latraw, lngraw, bs) ==
    LET lat == float_coord(latraw)
        lng == float_coord(lngraw)
    IN  IF lat.ok /\ lng.ok /\ InBox(lat.v, lng.v)
        THEN [ok |-> TRUE, key |-> round_to_block(lat.v, lng.v, bs)]
        ELSE [ok |-> FALSE, key |-> <<0, 0>>]

\* f"{num} {direction} {street}".strip(), the row carrying the street name only
FormatAddress(street) == IF street = NONE THEN "None" ELSE street

\* s.upper() == 'Y' / s.upper() in [...]
UpperIn(s, set) == Upper(Chars(s)) \in {Chars(x) : x \in set}

\* str(x)
Str(x) == IF x = NONE THEN "None" ELSE x

\* ---- process-neighborhood-data.py ----
\* a default cell that starts with one recent record
Default311Recent == [count |-> 0, categories |-> <<>>, ward |-> NONE, address |-> NONE,
                     recent_count |-> 1]

Default311 == [count |-> 0, categories |-> <<>>, ward |-> NONE, address |-> NONE,
               recent_count |-> 0]

FoldPN311(b, r) ==
    LET sr_type == Get(r, "label", "")                       \* SR_TYPE
    IN  IF sr_type = NONE THEN Raise(b)                      \* 'INFORMATION ONLY' in None
        ELSE IF Contains(Chars(sr_type), INFORMATION_ONLY) \/ Contains(Chars(sr_type), AIRCRAFT)
        THEN Skip(b)
        ELSE LET category == Category311(sr_type)
                 at == AcceptCoords(Get(r, "lat", "0"), Get(r, "lng", "0"), BLOCK_SIZE_PN)
             IN  IF category = NONE THEN Skip(b)
                 ELSE IF ~at.ok THEN Skip(b)
                 ELSE LET b1 == Touch(b, at.key, Default311)
                          c0 == Cell(b1, at.key)
                          created == Get(r, "date", "")      \* CREATED_DATE
                          dt == strptime_split(created)
                          recent == Truthy(created) /\ dt.ok /\ NotBeforeCutoff(dt.t, 90)
                          c1 == [c0 EXCEPT !.count = @ + 1,
                                           !.categories = CatInc(@, category),
                                           !.ward = Latch(@, Get(r, "ward", "")),
                                           !.address = Latch(@, Get(r, "addr", "")),
                                           !.recent_count = IF recent THEN @ + 1 ELSE @]
                      IN  Done(SetCell(b1, at.key, c1))

DefaultCrimes == [count |-> 0, categories |-> <<>>, ward |-> NONE, address |-> NONE,
                  arrests |-> 0]

FoldPNCrimes(b, r) ==
    LET raw == Get(r, "label", "")                           \* ' PRIMARY DESCRIPTION'
    IN  IF raw = NONE THEN Raise(b)                          \* None.strip()
        ELSE LET category == CategoryCrime(raw)
                 at == AcceptCoords(Get(r, "lat", "0"), Get(r, "lng", "0"), BLOCK_SIZE_PN)
             IN  IF ~at.ok THEN Skip(b)
                 ELSE LET b1 == Touch(b, at.key, DefaultCrimes)
                          c0 == Cell(b1, at.key)
                          c1 == [c0 EXCEPT !.count = @ + 1,
                                           !.categories = CatInc(@, category),
                                           !.ward = Latch(@, Get(r, "ward", "")),
                                           !.address = Latch(@, Get(r, "addr", ""))]   \* BLOCK
                          arrest == Get(r, "status", "")     \* ARREST
                      IN  IF arrest = NONE THEN Raise(SetCell(b1, at.key, c1))   \* None.upper()
                          ELSE Done(SetCell(b1, at.key,
                                    [c1 EXCEPT !.arrests = IF UpperIn(arrest, {"Y"}) THEN @ + 1 ELSE @]))

DefaultCrashes == [count |-> 0, injuries |-> 0, fatal |-> 0, hit_and_run |-> 0, address |-> NONE]

\* try: injuries += int(..); fatal += int(..) / except: pass
AddInjuries(c, r) ==
    LET inj == int_(Or(Get(r, "n1", "0"), "0"))              \* INJURIES_TOTAL
        fat == int_(Or(Get(r, "n2", "0"), "0"))              \* INJURIES_FATAL
    IN  IF ~inj.ok THEN c
        ELSE IF ~fat.ok THEN [c EXCEPT !.injuries = @ + inj.v]
        ELSE [c EXCEPT !.injuries = @ + inj.v, !.fatal = @ + fat.v]

FoldPNCrashes(b, r) ==
    LET at == AcceptCoords(Get(r, "lat", "0"), Get(r, "lng", "0"), BLOCK_SIZE_PN)
    IN  IF ~at.ok THEN Skip(b)
        ELSE LET b1 == Touch(b, at.key, DefaultCrashes)
                 c0 == Cell(b1, at.key)
                 c1 == AddInjuries([c0 EXCEPT !.count = @ + 1], r)
                 hit == Get(r, "status", "")                 \* HIT_AND_RUN_I
             IN  IF hit = NONE THEN Raise(SetCell(b1, at.key, c1))       \* None.upper()
                 ELSE Done(SetCell(b1, at.key,
                        [c1 EXCEPT !.hit_and_run = IF UpperIn(hit, {"Y"}) THEN @ + 1 ELSE @,
                                   !.address = Latch(@, FormatAddress(Get(r, "addr", "")))]))

\* ---- process-additional-data.py ----
DefaultPermits == [count |-> 0, categories |-> <<>>, ward |-> NONE, address |-> NONE,
                   total_cost |-> DZero, recent_count |-> 0]

\* try: cost = row.get('REPORTED_COST', '').replace(..); if cost: total += float(cost) / except: pass
AddReportedCost(total, raw) ==
    IF raw = NONE THEN total                                 \* None.replace()
    ELSE LET cost == StripCurrency(raw)
             f == float_cost(cost)
         IN  IF cost # "" /\ f.ok THEN DAdd(total, f.v) ELSE total

FoldPAPermits(b, r) ==
    LET at == AcceptCoords(Or(Get(r, "lat", "0"), "0"), Or(Get(r, "lng", "0"), "0"), BLOCK_SIZE_PA)
    IN  IF ~at.ok THEN Skip(b)
        ELSE LET b1 == Touch(b, at.key, DefaultPermits)
                 c0 == Cell(b1, at.key)
                 ptype == get_permit_type(Get(r, "label", ""))       \* PERMIT_TYPE
                 issue_date == Get(r, "date", "")                    \* ISSUE_DATE
                 dt == strptime_date(issue_date)
                 recent == Truthy(issue_date) /\ dt.ok /\ NotBeforeCutoff(dt.t, 365)
                 c1 == [c0 EXCEPT !.count = @ + 1,
                                  !.categories = CatInc(@, ptype),
                                  !.ward = Latch(@, Get(r, "ward", "")),
                                  !.address = Latch(@, FormatAddress(Get(r, "addr", ""))),
                                  !.total_cost = AddReportedCost(@, Get(r, "n1", "")),
                                  !.recent_count = IF recent THEN @ + 1 ELSE @]
             IN  Done(SetCell(b1, at.key, c1))

DefaultLicenses == [count |-> 0, categories |-> <<>>, ward |-> NONE, address |-> NONE,
                    active |-> 0]

FoldPALicenses(b, r) ==
    LET at == AcceptCoords(Or(Get(r, "lat", "0"), "0"), Or(Get(r, "lng", "0"), "0"), BLOCK_SIZE_PA)
    IN  IF ~at.ok THEN Skip(b)
        ELSE LET b1 == Touch(b, at.key, DefaultLicenses)
                 c0 == Cell(b1, at.key)
                 ltype == get_license_type(Get(r, "label", ""))      \* LICENSE DESCRIPTION
                 c1 == [c0 EXCEPT !.count = @ + 1,
                                  !.categories = CatInc(@, ltype),
                                  !.ward = Latch(@, Get(r, "ward", "")),
                                  !.address = Latch(@, Get(r, "addr", ""))]
                 status == Get(r, "status", "")                      \* LICENSE STATUS
             IN  IF status = NONE THEN Raise(SetCell(b1, at.key, c1))        \* None.upper()
                 ELSE Done(SetCell(b1, at.key,
                        [c1 EXCEPT !.active = IF UpperIn(status, {"AAI", "AAC", "ISSUED"})
                                              THEN @ + 1 ELSE @]))

DefaultPAPotholes == [count |-> 0, potholes_filled |-> 0, address |-> NONE, recent_count |-> 0]

\* try: potholes = int(row.get(.., 1) or 1); filled += potholes / except: filled += 1
AddPotholesPA(filled, raw) ==
    LET n == int_(Or(IF raw = MISSING THEN "1" ELSE raw, "1"))
    IN  IF n.ok THEN filled + n.v ELSE filled + 1

FoldPAPotholes(b, r) ==
    LET at == AcceptCoords(Or(Get(r, "lat", "0"), "0"), Or(Get(r, "lng", "0"), "0"), BLOCK_SIZE_PA)
    IN  IF ~at.ok THEN Skip(b)
        ELSE LET b1 == Touch(b, at.key, DefaultPAPotholes)
                 c0 == Cell(b1, at.key)
                 raw == Get(r, "date", "")                           \* REQUEST DATE
                 \* None.split() and ''.split()[0] raise inside the try
                 dt == strptime_split(raw)
                 recent == Truthy(raw) /\ dt.ok /\ NotBeforeCutoff(dt.t, 90)
                 c1 == [c0 EXCEPT !.count = @ + 1,
                                  !.potholes_filled = AddPotholesPA(@, r.n1),
                                  !.address = Latch(@, Get(r, "addr", "")),
                                  !.recent_count = IF recent THEN @ + 1 ELSE @]
             IN  Done(SetCell(b1, at.key, c1))

\* ---- update-neighborhood-data.py ----
\* the (category, sr_type) pairs in the order the two nested loops fetch them
TypePairs == Flatten(RELEVANT_CATEGORIES)

FoldUN311(b, r, category) ==
    LET at == AcceptCoords(Get(r, "lat", "0"), Get(r, "lng", "0"), BLOCK_SIZE_UN)
    IN  IF ~at.ok THEN Skip(b)
        ELSE LET b1 == Touch(b, at.key, Default311)
                 c0 == Cell(b1, at.key)
                 created == Get(r, "date", "")                       \* created_date
                 recent == Truthy(created) /\ IsoNotBefore(created, 90)
                 c1 == [c0 EXCEPT !.count = @ + 1,
                                  !.categories = CatInc(@, category),
                                  !.ward = Latch(@, Get(r, "ward", "")),
                                  !.address = Latch(@, Get(r, "addr", "")),
                                  !.recent_count = IF recent THEN @ + 1 ELSE @]
             IN  Done(SetCell(b1, at.key, c1))

FoldUNCrimes(b, r) ==
    LET raw == Get(r, "label", "")                                   \* primary_type
    IN  IF raw = NONE THEN Raise(b)                                  \* None.strip()
        ELSE LET category == CategoryCrime(raw)
                 at == AcceptCoords(Get(r, "lat", "0"), Get(r, "lng", "0"), BLOCK_SIZE_UN)
             IN  IF ~at.ok THEN Skip(b)
                 ELSE LET b1 == Touch(b, at.key, DefaultCrimes)
                          c0 == Cell(b1, at.key)
                          arrest == Str(Get(r, "status", ""))         \* arrest
                          c1 == [c0 EXCEPT !.count = @ + 1,
                                           !.categories = CatInc(@, category),
                                           !.ward = Latch(@, Get(r, "ward", "")),
                                           !.address = Latch(@, Get(r, "addr", "")),   \* block
                                           !.arrests = IF UpperIn(arrest, {"TRUE", "Y", "1"})
                                                       THEN @ + 1 ELSE @]
                      IN  Done(SetCell(b1, at.key, c1))

FoldUNCrashes(b, r) ==
    LET at == AcceptCoords(Get(r, "lat", "0"), Get(r, "lng", "0"), BLOCK_SIZE_UN)
    IN  IF ~at.ok THEN Skip(b)
        ELSE LET b1 == Touch(b, at.key, DefaultCrashes)
                 c0 == Cell(b1, at.key)
                 c1 == AddInjuries([c0 EXCEPT !.count = @ + 1], r)
                 hit == Str(Get(r, "status", ""))                    \* hit_and_run_i
             IN  Done(SetCell(b1, at.key,
                        [c1 EXCEPT !.hit_and_run = IF UpperIn(hit, {"Y", "TRUE", "1"}) THEN @ + 1 ELSE @,
                                   !.address = Latch(@, FormatAddress(Get(r, "addr", "")))]))

DefaultViolations == [count |-> 0, high_risk |-> 0, open |-> 0, address |-> NONE]

FoldUNViolations(b, r) ==
    LET at == AcceptCoords(Get(r, "lat", "0"), Get(r, "lng", "0"), BLOCK_SIZE_UN)
    IN  IF ~at.ok THEN Skip(b)
        ELSE LET b1 == Touch(b, at.key, DefaultViolations)
                 c0 == Cell(b1, at.key)
                 c1 == [c0 EXCEPT !.count = @ + 1]
                 vd == Get(r, "label", "")               \* violation_description; violation_code absent
                 status == Get(r, "status", "")          \* violation_status
             IN  IF vd = NONE THEN Raise(SetCell(b1, at.key, c1))            \* None + ' '
                 ELSE LET desc == Upper(Chars(vd) \o <<" ">>)
                          c2 == [c1 EXCEPT !.high_risk = IF HighRisk(desc) THEN @ + 1 ELSE @]
                      IN  IF status = NONE THEN Raise(SetCell(b1, at.key, c2))   \* None.upper()
                          ELSE Done(SetCell(b1, at.key,
                                 [c2 EXCEPT !.open = IF Contains(Upper(Chars(status)), Chars("OPEN"))
                                                     THEN @ + 1 ELSE @,
                                            !.address = Latch(@, Get(r, "addr", ""))]))

DefaultUNPotholes == [count |-> 0, filled |-> 0, completed |-> 0, address |-> NONE]

\* `=` where the code has `+=`: the last record's value stays
AddPotholesUNAssign(filled, raw) ==
    LET n == int_(Or(IF raw = MISSING THEN "0" ELSE raw, "0"))
    IN  IF n.ok THEN n.v ELSE filled

\* try: filled += int(row.get(.., 0) or 0) / except: pass
AddPotholesUN(filled, raw) ==
    LET n == int_(Or(IF raw = MISSING THEN "0" ELSE raw, "0"))
    IN  IF n.ok THEN filled + n.v ELSE filled

FoldUNPotholes(b, r) ==
    LET at == AcceptCoords(Get(r, "lat", "0"), Get(r, "lng", "0"), BLOCK_SIZE_UN)
    IN  IF ~at.ok THEN Skip(b)
        ELSE LET b1 == Touch(b, at.key, DefaultUNPotholes)
                 c0 == Cell(b1, at.key)
                 c1 == [c0 EXCEPT !.count = @ + 1,
                                  !.filled = AddPotholesUN(@, r.n1),
                                  !.completed = IF Truthy(Get(r, "date", NONE)) THEN @ + 1 ELSE @,  \* completion_date
                                  !.address = Latch(@, Get(r, "addr", ""))]
             IN  Done(SetCell(b1, at.key, c1))

DefaultUNPermits == [count |-> 0, issued |-> 0, cost |-> DZero, address |-> NONE]

\* try: cost += float(row.get('reported_cost', 0) or 0) / except: pass
AddCostUN(total, raw) ==
    LET f == float_cost(Or(IF raw = MISSING THEN "0" ELSE raw, "0"))
    IN  IF f.ok THEN DAdd(total, f.v) ELSE total

FoldUNPermits(b, r) ==
    LET at == AcceptCoords(Get(r, "lat", "0"), Get(r, "lng", "0"), BLOCK_SIZE_UN)
    IN  IF ~at.ok THEN Skip(b)
        ELSE LET b1 == Touch(b, at.key, DefaultUNPermits)
                 c0 == Cell(b1, at.key)
                 c1 == [c0 EXCEPT !.count = @ + 1]
                 status == Get(r, "status", "")                      \* permit_status
             IN  IF status = NONE THEN Raise(SetCell(b1, at.key, c1))        \* None.upper()
                 ELSE LET up == Upper(Chars(status))
                      IN  Done(SetCell(b1, at.key,
                             [c1 EXCEPT !.issued = IF Contains(up, Chars("ISSUED")) \/ Contains(up, Chars("COMPLETE"))
                                                   THEN @ + 1 ELSE @,
                                        !.cost = AddCostUN(@, r.n1),
                                        !.address = Latch(@, FormatAddress(Get(r, "addr", "")))]))

DefaultUNLicenses == [count |-> 0, active |-> 0, address |-> NONE]

FoldUNLicenses(b, r) ==
    LET at == AcceptCoords(Get(r, "lat", "0"), Get(r, "lng", "0"), BLOCK_SIZE_UN)
    IN  IF ~at.ok THEN Skip(b)
        ELSE LET b1 == Touch(b, at.key, DefaultUNLicenses)
                 c0 == Cell(b1, at.key)
                 c1 == [c0 EXCEPT !.count = @ + 1]
                 status == Get(r, "status", "")                      \* license_status
             IN  IF status = NONE THEN Raise(SetCell(b1, at.key, c1))        \* None.upper()
                 ELSE LET up == Upper(Chars(status))
                      IN  Done(SetCell(b1, at.key,
                             [c1 EXCEPT !.active = IF Contains(up, Chars("AAI")) \/ Contains(up, Chars("AAC"))
                                                      \/ Contains(up, Chars("ACTIVE"))
                                                   THEN @ + 1 ELSE @,
                                        !.address = Latch(@, Get(r, "addr", ""))]))

(***************************************************************************)
(* Filter, score, sort, serialize.                                         *)
(***************************************************************************)
Min(a, b) == IF a <= b THEN a ELSE b

\* int(n / d) for d > 0: truncation toward zero
Trunc(n, d) == IF n >= 0 THEN n \div d ELSE -((-n) \div d)

\* {k: v for k, v in blocks.items() if v['count'] >= threshold}
\* a filter that keeps only counts strictly above the threshold
\* no filter: every cell is kept
FilterNone(b, threshold) == b

FilterStrict(b, threshold) == SelectSeq(b, LAMBDA e : e.c.count > threshold)

Filter(b, threshold) == SelectSeq(b, LAMBDA e : e.c.count >= threshold)

\* `x or ''`
OrEmpty(x) == IF Truthy(x) THEN x ELSE ""

\* list.sort(key=lambda x: -x[pos]) with pos counted from 1: stable, descending
RECURSIVE InsertDesc(_, _, _)
InsertDesc(sorted, x, pos) ==
    IF sorted = <<>> THEN <<x>>
    ELSE IF Head(sorted)[pos] >= x[pos]
         THEN <<Head(sorted)>> \o InsertDesc(Tail(sorted), x, pos)
         ELSE <<x>> \o sorted

RECURSIVE SortDescFrom(_, _, _)
SortDescFrom(sorted, rest, pos) ==
    IF rest = <<>> THEN sorted
    ELSE SortDescFrom(InsertDesc(sorted, Head(rest), pos), Tail(rest), pos)

\* no sort: the rows stay in the order of the dict
Unsorted(data, pos) == data

SortDesc(data, pos) == SortDescFrom(<<>>, data, pos)

\* sum(...) of a list of ints
RECURSIVE SumSeq(_)
SumSeq(s) == IF s = <<>> THEN 0 ELSE Head(s) + SumSeq(Tail(s))

\* sum(f(b) for b in filtered.values())
SumCells(cells, F(_)) == SumSeq([j \in 1..Len(cells) |-> F(cells[j].c)])

\* sum(...) of a list of floats, left to right
RECURSIVE SumDbl(_)
SumDbl(s) == IF s = <<>> THEN DZero
             ELSE DAdd(SumDbl(SubSeq(s, 1, Len(s) - 1)), s[Len(s)])

SumCost(cells, F(_)) == SumDbl([j \in 1..Len(cells) |-> F(cells[j].c)])

CountOf(c) == c.count

\* The n with |n| <= 120 for which the float product (n / 50) * 100 lies just below 2n
FloatShort == {29, 57, 58, 113, 114, 115, 116}

\* int(n / 50 * 100), for |n| <= 120
IntTimes2(n) ==
    LET a == IF n >= 0 THEN n ELSE -n
        v == IF a \in FloatShort THEN 2 * a - 1 ELSE 2 * a
    IN  IF n >= 0 THEN v ELSE -v

\* min(100, int(count / 50 * 100))
ScoreCount50(count) == IF count > 120 THEN 100 ELSE Min(100, IntTimes2(count))

\* a crimes score that weighs a violent crime like a property crime
ScoreCrimesUnweighted(c) ==
    LET violent == CatGet(c.categories, "violent")
        property_crime == CatGet(c.categories, "property")
    IN  Min(100, Trunc((violent + property_crime) * 50 * 20 + c.count * c.count * 25,
                       c.count * 20))

\* min(100, int((violent * 3 + property) / count * 50 + count / 20 * 25))
\* (the float evaluation and the exact quotient truncate alike wherever the exact value is
\* below 100: they first differ at count 92, where both are above 100)
ScoreCrimes(c) ==
    LET violent == CatGet(c.categories, "violent")
        property_crime == CatGet(c.categories, "property")
    IN  Min(100, Trunc((violent * 3 + property_crime) * 50 * 20 + c.count * c.count * 25,
                       c.count * 20))

\* injury_rate = injuries / count if count > 0 else 0
\* min(100, int(fatal * 20 + injury_rate * 30 + count / 50 * 30))
\* (the float evaluation equals the exact quotient for count <= 8 and |injuries| <= 40)
ScoreCrashes(c) ==
    IF c.count > 0
    THEN Min(100, Trunc(c.fatal * 20 * c.count * 50 + c.injuries * 30 * 50 + c.count * c.count * 30,
                        c.count * 50))
    ELSE Min(100, Trunc(c.fatal * 20 * 50 + c.count * 30, 50))

\* min(100, int(high_risk * 10 + count / 10 * 50))
ScoreViolations(c) == Min(100, Trunc(c.high_risk * 100 + c.count * 50, 10))

\* min(100, int(count / 100 * 50 + (total_cost / 1000000) * 50)); int(inf) raises (EmitRaises)
ScorePermits(c) ==
    IF c.total_cost.big > 0 THEN 100
    ELSE Min(100, Trunc(c.count * 10000 + c.total_cost.small, 20000))

\* min(100, int(potholes_filled / 50 * 100))
ScorePotholes(c) == IF c.potholes_filled > 120 THEN 100 ELSE Min(100, IntTimes2(c.potholes_filled))

\* one data row per surviving cell, in dict order
Rows(filtered, T(_)) == [j \in 1..Len(filtered) |-> T(filtered[j])]

\* ---- process-neighborhood-data.py ----
Tuple311(e) == <<e.key[1], e.key[2], e.c.count, ScoreCount50(e.c.count), e.c.categories,
                 OrEmpty(e.c.ward), OrEmpty(e.c.address), e.c.recent_count>>

Emit311(b) ==
    LET filtered == Filter(b, 3)
        data == SortDesc(Rows(filtered, Tuple311), 3)
    IN  [meta |-> [total |-> SumCells(filtered, CountOf), blocks |-> Len(data)], data |-> data]

TupleCrimes(e) == <<e.key[1], e.key[2], e.c.count, ScoreCrimes(e.c), e.c.categories,
                    OrEmpty(e.c.ward), OrEmpty(e.c.address), e.c.arrests>>

EmitCrimes(b) ==
    LET filtered == Filter(b, 2)
        data == SortDesc(Rows(filtered, TupleCrimes), 3)
    IN  [meta |-> [total |-> SumCells(filtered, CountOf), blocks |-> Len(data)], data |-> data]

\* a crash row with the score after the injuries
TupleCrashesScoreLater(e) == <<e.key[1], e.key[2], e.c.count, e.c.injuries, ScoreCrashes(e.c), e.c.fatal,
                               e.c.hit_and_run, OrEmpty(e.c.address)>>

TupleCrashes(e) == <<e.key[1], e.key[2], e.c.count, ScoreCrashes(e.c), e.c.injuries, e.c.fatal,
                     e.c.hit_and_run, OrEmpty(e.c.address)>>

InjuriesOf(c) == c.injuries
FatalOf(c) == c.fatal

EmitCrashes(b) ==
    LET filtered == Filter(b, 3)
        data == SortDesc(Rows(filtered, TupleCrashes), 3)
    IN  [meta |-> [total |-> SumCells(filtered, CountOf), blocks |-> Len(data),
                   total_injuries |-> SumCells(filtered, InjuriesOf),
                   total_fatal |-> SumCells(filtered, FatalOf)],
         data |-> data]

\* ---- process-additional-data.py ----
TuplePAPermits(e) == <<e.key[1], e.key[2], e.c.count, ScorePermits(e.c), e.c.categories,
                       OrEmpty(e.c.ward), OrEmpty(e.c.address), e.c.total_cost, e.c.recent_count>>

EmitPAPermits(b) ==
    LET filtered == Filter(b, 5)
        data == SortDesc(Rows(filtered, TuplePAPermits), 3)
    IN  [meta |-> [total |-> SumCells(filtered, CountOf), blocks |-> Len(data)], data |-> data]

TuplePALicenses(e) == <<e.key[1], e.key[2], e.c.count, ScoreCount50(e.c.count), e.c.categories,
                        OrEmpty(e.c.ward), OrEmpty(e.c.address), e.c.active>>

EmitPALicenses(b) ==
    LET filtered == Filter(b, 3)
        data == SortDesc(Rows(filtered, TuplePALicenses), 3)
    IN  [meta |-> [total |-> SumCells(filtered, CountOf), blocks |-> Len(data)], data |-> data]

TuplePAPotholes(e) == <<e.key[1], e.key[2], e.c.count, e.c.potholes_filled, ScorePotholes(e.c),
                        OrEmpty(e.c.address), e.c.recent_count>>

FilledPAOf(c) == c.potholes_filled

\* the potholes output ordered as the other datasets are, by request count
EmitPAPotholesByCount(b) ==
    LET filtered == Filter(b, 3)
        data == SortDesc(Rows(filtered, TuplePAPotholes), 3)
    IN  [meta |-> [total_repairs |-> SumCells(filtered, CountOf),
                   total_potholes |-> SumCells(filtered, FilledPAOf),
                   blocks |-> Len(data)],
         data |-> data]

EmitPAPotholes(b) ==
    LET filtered == Filter(b, 3)
        data == SortDesc(Rows(filtered, TuplePAPotholes), 4)
    IN  [meta |-> [total_repairs |-> SumCells(filtered, CountOf),
                   total_potholes |-> SumCells(filtered, FilledPAOf),
                   blocks |-> Len(data)],
         data |-> data]

\* ---- update-neighborhood-data.py (process_311, process_crimes, process_crashes build
\* their output exactly as the CSV script does)
TupleViolations(e) == <<e.key[1], e.key[2], e.c.count, ScoreViolations(e.c), e.c.high_risk,
                        e.c.open, OrEmpty(e.c.address)>>

EmitViolations(b) ==
    LET filtered == Filter(b, 2)
        data == SortDesc(Rows(filtered, TupleViolations), 3)
    IN  [meta |-> [total |-> SumCells(filtered, CountOf), blocks |-> Len(data)], data |-> data]

TupleUNPotholes(e) == <<e.key[1], e.key[2], e.c.count, e.c.filled, e.c.completed,
                        OrEmpty(e.c.address)>>

FilledUNOf(c) == c.filled

EmitUNPotholes(b) ==
    LET filtered == Filter(b, 2)
        data == SortDesc(Rows(filtered, TupleUNPotholes), 3)
    IN  [meta |-> [total |-> SumCells(filtered, CountOf), blocks |-> Len(data),
                   total_filled |-> SumCells(filtered, FilledUNOf)],
         data |-> data]

TupleUNPermits(e) == <<e.key[1], e.key[2], e.c.count, e.c.issued, e.c.cost, OrEmpty(e.c.address)>>

CostOf(c) == c.cost

EmitUNPermits(b) ==
    LET filtered == Filter(b, 2)
        data == SortDesc(Rows(filtered, TupleUNPermits), 3)
    IN  [meta |-> [total |-> SumCells(filtered, CountOf), blocks |-> Len(data),
                   total_cost |-> SumCost(filtered, CostOf)],
         data |-> data]

TupleUNLicenses(e) == <<e.key[1], e.key[2], e.c.count, e.c.active, OrEmpty(e.c.address)>>

ActiveOf(c) == c.active

EmitUNLicenses(b) ==
    LET filtered == Filter(b, 2)
        data == SortDesc(Rows(filtered, TupleUNLicenses), 3)
    IN  [meta |-> [total |-> SumCells(filtered, CountOf), blocks |-> Len(data),
                   total_active |-> SumCells(filtered, ActiveOf)],
         data |-> data]

\* ---- process-additional-data.py: process_camera_violations ----
\* int(float(x)) of the VIOLATIONS column
FloatIntLiterals ==
    IntLiterals \cup [ lit : {"60.0"}, v : {60} ] \cup [ lit : {"2.7"}, v : {2} ]

int_float(x) ==
    IF \E l \in FloatIntLiterals : l.lit = x
    THEN [ok |-> TRUE, v |-> (CHOOSE l \in FloatIntLiterals : l.lit = x).v]
    ELSE [ok |-> FALSE, v |-> 0]

DefaultCamera == [violations |-> 0, lat |-> 0, lng |-> 0, address |-> "", intersection |-> ""]

\* the loop body of either camera file; the whole body is inside try/except: continue.
\* Row fields: label = CAMERA ID, n1 = VIOLATIONS, addr = ADDRESS, status = INTERSECTION
\* (the speed dict has no 'intersection' entry: with_intersection = FALSE leaves it "").
FoldCamera(d, r, with_intersection) ==
    LET camera_id == Get(r, "label", "")
        violations == int_float(Or(Get(r, "n1", "0"), "0"))
        lat == float_coord(Or(Get(r, "lat", "0"), "0"))
        lng == float_coord(Or(Get(r, "lng", "0"), "0"))
    IN  IF ~violations.ok \/ ~lat.ok \/ ~lng.ok THEN Skip(d)
        ELSE IF ~(Truthy(camera_id) /\ violations.v > 0 /\ lat.v # 0 /\ lng.v # 0) THEN Skip(d)
        ELSE LET d1 == Touch(d, camera_id, DefaultCamera)
                 c0 == Cell(d1, camera_id)
                 c1 == [c0 EXCEPT !.violations = @ + violations.v,
                                  !.lat = lat.v,
                                  !.lng = lng.v,
                                  !.address = Get(r, "addr", ""),
                                  !.intersection = IF with_intersection
                                                   THEN Get(r, "status", "") ELSE @]
             IN  Done(SetCell(d1, camera_id, c1))

ViolationsOf(c) == c.violations

\* info['intersection'] or info['address']
TupleRedLight(e) == <<e.c.lat, e.c.lng, e.c.violations, e.key,
                      IF Truthy(e.c.intersection) THEN e.c.intersection ELSE e.c.address>>

TupleSpeed(e) == <<e.c.lat, e.c.lng, e.c.violations, e.key, e.c.address>>

\* no filter: every camera is kept
AllCameras(d) == d

FilterCameras(d) == SelectSeq(d, LAMBDA e : e.c.violations >= 100)

EmitRedLight(d) ==
    LET kept == FilterCameras(d)
        data == SortDesc(Rows(kept, TupleRedLight), 3)
    IN  [meta |-> [cameras |-> Len(data), total_violations |-> SumCells(kept, ViolationsOf)],
         data |-> data]

EmitSpeed(d) ==
    LET kept == FilterCameras(d)
        data == SortDesc(Rows(kept, TupleSpeed), 3)
    IN  [meta |-> [cameras |-> Len(data), total_violations |-> SumCells(kept, ViolationsOf)],
         data |-> data]

(***************************************************************************)
(* The scripts: which processors each runs, in order, and the file each    *)
(* output goes to.                                                         *)
(***************************************************************************)
Processors(s) ==
    CASE s = "PN" ->
           << [name |-> "process_311",     kind |-> "PN311",     files |-> <<"311-data.json">>],
              [name |-> "process_crimes",  kind |-> "PNCrimes",  files |-> <<"crimes-data.json">>],
              [name |-> "process_crashes", kind |-> "PNCrashes", files |-> <<"crashes-data.json">>] >>
      [] s = "PA" ->
           << [name |-> "process_permits",  kind |-> "PAPermits",  files |-> <<"permits-data.json">>],
              [name |-> "process_licenses", kind |-> "PALicenses", files |-> <<"licenses-data.json">>],
              [name |-> "process_camera_violations", kind |-> "PACamera",
               files |-> <<"redlight-violations.json", "speed-violations.json">>],
              [name |-> "process_potholes", kind |-> "PAPotholes", files |-> <<"potholes-data.json">>] >>
      [] s = "UN" ->
           << [name |-> "process_311",        kind |-> "UN311",        files |-> <<"311-data.json">>],
              [name |-> "process_crimes",     kind |-> "UNCrimes",     files |-> <<"crimes-data.json">>],
              [name |-> "process_crashes",    kind |-> "UNCrashes",    files |-> <<"crashes-data.json">>],
              [name |-> "process_violations", kind |-> "UNViolations", files |-> <<"violations-data.json">>],
              [name |-> "process_potholes",   kind |-> "UNPotholes",   files |-> <<"potholes-data.json">>],
              [name |-> "process_permits",    kind |-> "UNPermits",    files |-> <<"permits-data.json">>],
              [name |-> "process_licenses",   kind |-> "UNLicenses",   files |-> <<"licenses-data.json">>] >>

Scripts == {"PN", "PA", "UN"}

\* the names of a script's processors, in run order
ProcessorNames(s) == [j \in 1..Len(Processors(s)) |-> Processors(s)[j].name]

OutputFiles == {"311-data.json", "crimes-data.json", "crashes-data.json", "violations-data.json",
                "potholes-data.json", "permits-data.json", "licenses-data.json",
                "redlight-violations.json", "speed-violations.json"}

Proc == Processors(script)[pidx]
Kind == Proc.kind

\* the CSV scripts read files and write their own output; the API script fetches
IsCsv == script \in {"PN", "PA"}

GridKinds == {"PN311", "PNCrimes", "PNCrashes", "PAPermits", "PALicenses", "PAPotholes",
              "UN311", "UNCrimes", "UNCrashes", "UNViolations", "UNPotholes", "UNPermits",
              "UNLicenses"}

\* the loop body of a processor
Fold(kind, b, r, category) ==
    CASE kind = "PN311"        -> FoldPN311(b, r)
      [] kind = "PNCrimes"     -> FoldPNCrimes(b, r)
      [] kind = "PNCrashes"    -> FoldPNCrashes(b, r)
      [] kind = "PAPermits"    -> FoldPAPermits(b, r)
      [] kind = "PALicenses"   -> FoldPALicenses(b, r)
      [] kind = "PACamera"     -> FoldCamera(b, r, TRUE)
      [] kind = "PAPotholes"   -> FoldPAPotholes(b, r)
      [] kind = "UN311"        -> FoldUN311(b, r, category)
      [] kind = "UNCrimes"     -> FoldUNCrimes(b, r)
      [] kind = "UNCrashes"    -> FoldUNCrashes(b, r)
      [] kind = "UNViolations" -> FoldUNViolations(b, r)
      [] kind = "UNPotholes"   -> FoldUNPotholes(b, r)
      [] kind = "UNPermits"    -> FoldUNPermits(b, r)
      [] kind = "UNLicenses"   -> FoldUNLicenses(b, r)

\* the `filtered = {... if v['count'] >= N}` line of each processor
Threshold(kind) ==
    CASE kind \in {"PN311", "UN311", "PNCrashes", "UNCrashes", "PALicenses", "PAPotholes"} -> 3
      [] kind = "PAPermits" -> 5
      [] kind \in {"PNCrimes", "UNCrimes", "UNViolations", "UNPotholes", "UNPermits", "UNLicenses"} -> 2

\* int(inf) raises OverflowError while the data rows are built
EmitRaises(kind, b) ==
    CASE kind = "PAPermits" -> \E j \in 1..Len(b) : b[j].c.count >= 5 /\ b[j].c.total_cost.inf
      [] kind = "UNPermits" -> \E j \in 1..Len(b) : b[j].c.count >= 2 /\ b[j].c.cost.inf
      [] OTHER -> FALSE

\* everything a grid processor does after its loop, up to the `output` dict
Emit(kind, b) ==
    CASE kind \in {"PN311", "UN311"}         -> Emit311(b)
      [] kind \in {"PNCrimes", "UNCrimes"}   -> EmitCrimes(b)
      [] kind \in {"PNCrashes", "UNCrashes"} -> EmitCrashes(b)
      [] kind = "PAPermits"    -> EmitPAPermits(b)
      [] kind = "PALicenses"   -> EmitPALicenses(b)
      [] kind = "PAPotholes"   -> EmitPAPotholes(b)
      [] kind = "UNViolations" -> EmitViolations(b)
      [] kind = "UNPotholes"   -> EmitUNPotholes(b)
      [] kind = "UNPermits"    -> EmitUNPermits(b)
      [] kind = "UNLicenses"   -> EmitUNLicenses(b)

\* records accepted so far by the running loop
Load(kind, b) == IF kind = "PACamera" THEN SumCells(b, ViolationsOf) ELSE SumCells(b, CountOf)

Limit(kind) == IF mode = "main" THEN MainRows
               ELSE IF kind = "PACamera" THEN MaxViolations
               ELSE IF feed \in {"latch", "labels", "ties"} THEN LatchRows
               ELSE IF feed = "sort" THEN SortRows ELSE MaxRows

(***************************************************************************)
(* Input records.  Every feed varies a few columns around a record that    *)
(* every processor accepts.                                                *)
(***************************************************************************)
DefaultLabel(kind) ==
    CASE kind = "PN311" -> "Pothole in Street Complaint"
      [] kind \in {"PNCrimes", "UNCrimes"} -> "THEFT"
      [] kind = "PAPermits" -> "PERMIT - ELECTRICAL"
      [] kind = "PALicenses" -> "Tavern"
      [] kind = "UNViolations" -> "REPAIR PORCH"
      [] kind = "PACamera" -> "CN190019"
      [] OTHER -> MISSING

DefaultN1(kind) ==
    CASE kind \in {"PNCrashes", "UNCrashes"} -> "1"
      [] kind = "PAPermits" -> "$250,000"
      [] kind = "UNPermits" -> "250000"
      [] kind \in {"PAPotholes", "UNPotholes"} -> "2"
      [] kind = "PACamera" -> "60"
      [] OTHER -> MISSING

DefaultDate(kind) ==
    CASE kind \in {"PN311", "PAPotholes"} -> "12/20/2025 09:00:00 AM"
      [] kind = "PAPermits" -> "12/20/2025"
      [] kind \in {"UN311", "UNPotholes"} -> "2025-12-20T09:00:00.000"
      [] OTHER -> MISSING

DefaultStatus(kind) ==
    CASE kind = "PNCrimes" -> "Y"
      [] kind = "UNCrimes" -> "true"
      [] kind \in {"PNCrashes", "UNCrashes"} -> "N"
      [] kind \in {"PALicenses", "UNLicenses"} -> "AAI"
      [] kind = "UNViolations" -> "OPEN"
      [] kind = "UNPermits" -> "ISSUED"
      [] kind = "PACamera" -> ""
      [] OTHER -> MISSING

DefaultRow(kind) ==
    [lat |-> "41.880", lng |-> "-87.630", label |-> DefaultLabel(kind), ward |-> "42",
     addr |-> "100 N STATE ST", n1 |-> DefaultN1(kind),
     n2 |-> IF kind \in {"PNCrashes", "UNCrashes"} THEN "0" ELSE MISSING,
     date |-> DefaultDate(kind), status |-> DefaultStatus(kind)]

\* latitudes inside the box: two cells, with and without a tie in round()
LatInside(kind) == IF kind \in {"PAPermits", "PALicenses", "PAPotholes", "PACamera"}
                   THEN {"41.880", "41.882", "41.884"}
                   ELSE {"41.880", "41.881", "41.883", "41.884"}

LatRejected == {"41.6", "42.1", "43.0", "abc", "", NONE, MISSING}
LngRejected == {"-87.5", "-88.0", "abc", NONE}

NumN1(kind) ==
    CASE kind \in {"PNCrashes", "UNCrashes"} -> {"1", "2", "-3", "abc", "", MISSING}
      [] kind = "PAPermits" -> {"$1,000,000", "250000", "-3000000", "9007199254740992", "1",
                                "abc", "", NONE, "inf"}
      [] kind = "UNPermits" -> {"1000000", "250000", "-3000000", "9007199254740992", "1",
                                "abc", "", "inf"}
      [] kind \in {"PAPotholes", "UNPotholes"} -> {"2", "10", "-3", "0", "abc", "", MISSING}
      [] kind = "PACamera" -> {"60", "40", "150", "abc"}
      [] OTHER -> {MISSING}

NumN2(kind) == IF kind \in {"PNCrashes", "UNCrashes"} THEN {"0", "1", "abc"} ELSE {MISSING}

NumLabels(kind) ==
    CASE kind \in {"PNCrimes", "UNCrimes"} -> {"THEFT", "BATTERY", "STALKING"}
      [] kind = "PN311" -> {"Pothole in Street Complaint", "Graffiti Removal Request"}
      [] kind = "PALicenses" -> {"Tavern", "Limited Business License"}
      [] kind = "UNViolations" -> {"REPAIR PORCH", "SMOKE DETECTOR MISSING"}
      [] OTHER -> {DefaultLabel(kind)}

NumStatus(kind) ==
    CASE kind = "PNCrimes" -> {"Y", "N"}
      [] kind = "UNCrimes" -> {"true", "false"}
      [] kind \in {"PALicenses", "UNLicenses"} -> {"AAI", "REV"}
      [] kind = "UNViolations" -> {"OPEN", "COMPLIED"}
      [] OTHER -> {DefaultStatus(kind)}

\* (ward, address) pairs of the records of the latch feed
LatchValues == { [ward |-> "",   addr |-> ""],
                 [ward |-> "",   addr |-> "100 N STATE ST"],
                 [ward |-> "42", addr |-> "100 N STATE ST"],
                 [ward |-> "27", addr |-> "200 W MADISON ST"] }

\* labels of the records of the label feed: keyword hits in either case, a label with
\* keywords of two categories, labels with no keyword, padded labels
LabelValues(kind) ==
    CASE kind = "PN311" -> {"Pothole in Street Complaint", "POTHOLE IN STREET COMPLAINT",
                            "Sign Repair Request - Stop Sign", "Graffiti Removal Request",
                            "Yard Waste Pick-Up Request", "Aircraft Noise Complaint",
                            "311 INFORMATION ONLY CALL", ""}
      [] kind \in {"PNCrimes", "UNCrimes"} -> {"THEFT", "BATTERY", " ASSAULT ", "theft",
                                               "AGGRAVATED ASSAULT", "STALKING", "NARCOTICS", ""}
      [] kind = "PAPermits" -> {"PERMIT - ELECTRICAL", "Permit - Signs",
                                "PERMIT - SIGN RENOVATION", "PERMIT - EASY PERMIT PROCESS", ""}
      [] kind = "PALicenses" -> {"Retail Food Establishment", "Tobacco Retail Over Counter",
                                 "Limited Business License", "Tavern", ""}
      [] OTHER -> {DefaultLabel(kind)}

\* coordinates of the records of the tie feed, per block size: one latitude and one
\* longitude that are a multiple of the block size, one of each halfway between two
\* multiples; no two of them round to the same multiple
TieLat(kind) ==
    CASE kind \in {"PAPermits", "PALicenses", "PAPotholes"} -> {"41.882", "41.884"}
      [] kind \in {"PN311", "PNCrimes", "PNCrashes"} -> {"41.881", "41.884"}
      [] OTHER -> {"41.883", "41.880"}

TieLng(kind) ==
    IF kind \in {"PAPermits", "PALicenses", "PAPotholes"} THEN {"-87.626", "-87.632"}
    ELSE {"-87.633", "-87.630"}

\* timestamps of the records of the date feed: inside the window, on its first day before
\* and after the time of processing, outside it, unparsable, empty and missing
DateValues(kind) ==
    CASE kind \in {"PN311", "PAPotholes", "PAPermits"} ->
             {l.lit : l \in CsvDates} \cup {"abc", "", MISSING}
      [] kind = "UN311" ->
             {l.lit : l \in IsoDates} \cup {"abc", "9/1/2020", "2025", "", NONE, MISSING}
      [] OTHER -> {DefaultDate(kind)}

\* potholes filled of the records of the sort feed
SortN1(kind) == IF kind \in {"PAPotholes", "UNPotholes"} THEN {"2", "10"} ELSE {DefaultN1(kind)}

Feeds == {"coords", "nums", "latch", "abort", "labels", "sort", "ties", "dates"}

RowsOf(kind, fd) ==
    LET d == DefaultRow(kind)
    IN  CASE fd = "coords" /\ kind = "PACamera" ->
               {[d EXCEPT !.lat = a, !.label = l] :
                    a \in {"41.880", "43.0", "0", "abc"}, l \in {d.label, ""}}
          [] fd = "coords" ->
               {[d EXCEPT !.lat = a, !.lng = o, !.label = l] :
                    a \in LatInside(kind) \cup LatRejected,
                    o \in {"-87.630"} \cup LngRejected,
                    l \in {d.label, NONE}}
          [] fd = "nums" ->
               {[d EXCEPT !.n1 = x, !.n2 = y, !.label = l, !.status = s] :
                    x \in NumN1(kind), y \in NumN2(kind),
                    l \in NumLabels(kind), s \in NumStatus(kind)}
          [] fd = "latch" /\ kind = "PACamera" ->
               {[d EXCEPT !.label = l, !.addr = wa.addr] :
                    l \in {"CN190019", "EV1110"}, wa \in LatchValues}
          [] fd = "latch" ->
               {[d EXCEPT !.lat = a, !.ward = wa.ward, !.addr = wa.addr] :
                    a \in {"41.880", "41.884"}, wa \in LatchValues}
          [] fd = "labels" ->
               {[d EXCEPT !.label = l] : l \in LabelValues(kind)}
          [] fd \in {"sort", "ties"} /\ kind = "PACamera" -> {d}
          [] fd = "cameras" ->
               {[d EXCEPT !.label = l, !.n1 = x, !.lat = a] :
                    l \in {"CN190019", "EV1110", ""}, x \in {"60", "40", "0", "-3"},
                    a \in {"43.0", "0"}}
          [] fd = "dates" ->
               {[d EXCEPT !.date = t] : t \in DateValues(kind)}
          [] fd = "ties" ->
               {[d EXCEPT !.lat = a, !.lng = o] : a \in TieLat(kind), o \in TieLng(kind)}
          [] fd = "sort" ->
               {[d EXCEPT !.lat = a, !.n1 = x] : a \in {"41.880", "41.884"}, x \in SortN1(kind)}
          [] fd = "abort" ->
               {d, [d EXCEPT !.label = NONE, !.status = NONE]}
               \cup (IF kind = "UNPermits" THEN {[d EXCEPT !.n1 = "inf"]} ELSE {})

\* the records the current source can deliver
InputRows == RowsOf(Kind, feed)

\* UN process_311: the request types (indices into TypePairs) the portal has records of;
\* the fetch of any other type returns an empty list
TypesWithData == {1, 8}

\* UN process_311: the category of the request type being fetched
Category == IF Kind = "UN311" /\ ti \in 1..Len(TypePairs) THEN TypePairs[ti].cat ELSE NONE

(***************************************************************************)
(* Results and files.                                                      *)
(***************************************************************************)
NoOutput == [meta |-> [blocks |-> 0], data |-> <<>>]

Running == [st |-> "running", value |-> "None", why |-> "-", out |-> NoOutput]

\* an exception leaves the processor
Raised(why) == [st |-> "raised", value |-> "None", why |-> why, out |-> NoOutput]

\* `return None` of an except branch
ReturnedNone(why) == [st |-> "returned", value |-> "None", why |-> why, out |-> NoOutput]

Old == [state |-> "old", blocks |-> 0]
Written(out) == [state |-> "written", blocks |-> Len(out.data)]
Partial == [state |-> "partial", blocks |-> 0]

(***************************************************************************)
(* Initial states.                                                         *)
(***************************************************************************)
Init ==
    /\ MailIdle
    /\ script \in Scripts
    /\ mode \in {"unit", "main"}
    /\ feed \in IF mode = "unit" THEN Feeds ELSE {"abort"}
    /\ pidx \in IF mode = "unit" THEN 1..Len(Processors(script)) ELSE {1}
    /\ pc = IF mode = "main" /\ script = "UN" THEN "start" ELSE "call"
    /\ ti = 0
    /\ blocks = <<>>
    /\ rl_cameras = <<>>
    /\ fetches = {}
    /\ result = Running
    /\ files = [f \in OutputFiles |-> Old]
    /\ success = "unset"
    /\ exitcode = -1
    /\ calls = <<>>

(***************************************************************************)
(* A processor call.                                                       *)
(***************************************************************************)
Invoke ==
    /\ pc = "call"
    /\ pc' = "enter"
    /\ calls' = Append(calls, Proc.name)
    /\ blocks' = <<>>
    /\ rl_cameras' = <<>>
    /\ fetches' = {}
    /\ result' = Running
    /\ ti' = 0
    /\ UNCHANGED <<mailvars, script, mode, feed, pidx, files, success, exitcode>>

\* with open(<csv>) as f: reader = csv.DictReader(f)
OpenInput ==
    /\ pc = "enter" /\ IsCsv
    /\ pc' = "fold"
    /\ UNCHANGED <<mailvars, script, mode, feed, pidx, ti, blocks, rl_cameras, fetches, result, files,
                   success, exitcode, calls>>

\* the file is missing or unreadable: open() raises, outside any try
OpenInputFails ==
    /\ pc = "enter" /\ IsCsv
    /\ result' = Raised("open")
    /\ pc' = "ret"
    /\ UNCHANGED <<mailvars, script, mode, feed, pidx, ti, blocks, rl_cameras, fetches, files,
                   success, exitcode, calls>>

\* UN, every processor but process_311: data = fetch_data(...)
Fetch ==
    /\ pc = "enter" /\ script = "UN" /\ Kind # "UN311"
    /\ fetches' = fetches \cup {"ok"}
    /\ pc' = "fold"
    /\ UNCHANGED <<mailvars, script, mode, feed, pidx, ti, blocks, rl_cameras, result, files,
                   success, exitcode, calls>>

\* fetch_data raises: except Exception -> return None
FetchFails ==
    /\ pc = "enter" /\ script = "UN" /\ Kind # "UN311"
    /\ fetches' = fetches \cup {"error"}
    /\ result' = ReturnedNone("fetch")
    /\ pc' = "ret"
    /\ UNCHANGED <<mailvars, script, mode, feed, pidx, ti, blocks, rl_cameras, files,
                   success, exitcode, calls>>

\* UN process_311: the two nested loops over RELEVANT_TYPES start
Start311 ==
    /\ pc = "enter" /\ Kind = "UN311"
    /\ ti' = 1
    /\ pc' = "fetch"
    /\ UNCHANGED <<mailvars, script, mode, feed, pidx, blocks, rl_cameras, fetches, result, files,
                   success, exitcode, calls>>

FetchType ==
    /\ pc = "fetch" /\ ti <= Len(TypePairs)
    /\ fetches' = fetches \cup {"ok"}
    /\ pc' = "fold"
    /\ UNCHANGED <<mailvars, script, mode, feed, pidx, ti, blocks, rl_cameras, result, files,
                   success, exitcode, calls>>

\* the fetch of one request type raises: the except prints and the loop goes on
FetchTypeFails ==
    /\ pc = "fetch" /\ ti <= Len(TypePairs)
    /\ fetches' = fetches \cup {"error"}
    /\ ti' = ti + 1
    /\ UNCHANGED <<mailvars, script, mode, feed, pidx, pc, blocks, rl_cameras, result, files,
                   success, exitcode, calls>>

\* one record read and folded without an exception leaving the loop body
FoldRow ==
    /\ pc = "fold"
    /\ Load(Kind, blocks) < Limit(Kind)
    /\ Kind = "UN311" => ti \in TypesWithData
    /\ \E r \in InputRows :
         LET f == Fold(Kind, blocks, r, Category)
         IN  /\ ~f.err
             /\ blocks' = f.b
    /\ UNCHANGED <<mailvars, script, mode, feed, pidx, pc, ti, rl_cameras, fetches, result, files,
                   success, exitcode, calls>>

\* one record read whose loop body raises.  The CSV scripts have no handler; the API
\* processors catch it around the whole loop and return None.
RowRaises ==
    /\ pc = "fold"
    /\ Load(Kind, blocks) < Limit(Kind)
    /\ \E r \in InputRows :
         LET f == Fold(Kind, blocks, r, Category)
         IN  /\ f.err
             /\ blocks' = f.b
    /\ result' = IF IsCsv THEN Raised("row") ELSE ReturnedNone("row")
    /\ pc' = "ret"
    /\ UNCHANGED <<mailvars, script, mode, feed, pidx, ti, rl_cameras, fetches, files,
                   success, exitcode, calls>>

\* the csv reader itself raises while iterating (csv.Error, OSError)
ReaderRaises ==
    /\ pc \in {"fold", "fold2"} /\ IsCsv
    /\ result' = Raised("read")
    /\ pc' = "ret"
    /\ UNCHANGED <<mailvars, script, mode, feed, pidx, ti, blocks, rl_cameras, fetches, files,
                   success, exitcode, calls>>

\* the reader / the fetched list is exhausted
EndOfData ==
    /\ pc = "fold" /\ Kind \notin {"UN311", "PACamera"}
    /\ pc' = "emit"
    /\ UNCHANGED <<mailvars, script, mode, feed, pidx, ti, blocks, rl_cameras, fetches, result, files,
                   success, exitcode, calls>>

\* UN process_311: the records of one request type are exhausted
EndOfType ==
    /\ pc = "fold" /\ Kind = "UN311"
    /\ ti' = ti + 1
    /\ pc' = "fetch"
    /\ UNCHANGED <<mailvars, script, mode, feed, pidx, blocks, rl_cameras, fetches, result, files,
                   success, exitcode, calls>>

AllTypesDone ==
    /\ pc = "fetch" /\ ti > Len(TypePairs)
    /\ pc' = "emit"
    /\ UNCHANGED <<mailvars, script, mode, feed, pidx, ti, blocks, rl_cameras, fetches, result, files,
                   success, exitcode, calls>>

\* PA process_camera_violations: the red-light file is exhausted, the speed file opens
OpenSpeed ==
    /\ pc = "fold" /\ Kind = "PACamera"
    /\ rl_cameras' = blocks
    /\ blocks' = <<>>
    /\ pc' = "fold2"
    /\ UNCHANGED <<mailvars, script, mode, feed, pidx, ti, fetches, result, files,
                   success, exitcode, calls>>

OpenSpeedFails ==
    /\ pc = "fold" /\ Kind = "PACamera"
    /\ rl_cameras' = blocks
    /\ blocks' = <<>>
    /\ result' = Raised("open")
    /\ pc' = "ret"
    /\ UNCHANGED <<mailvars, script, mode, feed, pidx, ti, fetches, files, success, exitcode, calls>>

FoldSpeedRow ==
    /\ pc = "fold2"
    /\ Load(Kind, blocks) < Limit(Kind)
    /\ \E r \in InputRows : blocks' = FoldCamera(blocks, r, FALSE).b
    /\ UNCHANGED <<mailvars, script, mode, feed, pidx, pc, ti, rl_cameras, fetches, result, files,
                   success, exitcode, calls>>

EndOfSpeed ==
    /\ pc = "fold2"
    /\ pc' = "emit"
    /\ UNCHANGED <<mailvars, script, mode, feed, pidx, ti, blocks, rl_cameras, fetches, result, files,
                   success, exitcode, calls>>

\* a scoring that indexes the category map, block['categories']['violent']: on a
\* defaultdict(int) the lookup of a missing category inserts it with 0
AfterBuildIndexing(kind, b) ==
    IF kind \in {"PNCrimes", "UNCrimes"}
    THEN [j \in 1..Len(b) |->
            IF b[j].c.count >= 2
            THEN [b[j] EXCEPT !.c.categories = Touch(Touch(@, "violent", 0), "property", 0)]
            ELSE b[j]]
    ELSE b

\* the cell map after filter, score, sort and serialization: the comprehension over
\* blocks.items(), block['categories'].get(.., 0), dict(..), sort and sum only read it
AfterBuild(kind, b) == b

\* filter, score, sort, build `output`; the API processors return it
BuildOutput ==
    /\ pc = "emit"
    /\ ~EmitRaises(Kind, blocks)
    /\ blocks' = AfterBuild(Kind, blocks)
    /\ result' = IF Kind = "PACamera"
                 THEN [Running EXCEPT !.out = [redlight |-> EmitRedLight(rl_cameras),
                                               speed |-> EmitSpeed(blocks)]]
                 ELSE IF IsCsv
                 THEN [Running EXCEPT !.out = Emit(Kind, blocks)]
                 ELSE [st |-> "returned", value |-> "output", why |-> "done",
                       out |-> Emit(Kind, blocks)]
    /\ pc' = IF IsCsv THEN "write" ELSE "ret"
    /\ UNCHANGED <<mailvars, script, mode, feed, pidx, ti, rl_cameras, fetches, files,
                   success, exitcode, calls>>

\* building the data rows raises, outside every try of the processor
BuildRaises ==
    /\ pc = "emit"
    /\ EmitRaises(Kind, blocks)
    /\ result' = Raised("emit")
    /\ pc' = "ret"
    /\ UNCHANGED <<mailvars, script, mode, feed, pidx, ti, blocks, rl_cameras, fetches, files,
                   success, exitcode, calls>>

\* the file the CSV processor is about to write, and the output that goes into it
WriteIndex == IF pc = "write" THEN 1 ELSE 2

WriteTarget == Proc.files[WriteIndex]

WriteOutput == IF Kind = "PACamera"
               THEN (IF pc = "write" THEN result.out.redlight ELSE result.out.speed)
               ELSE result.out

\* CSV scripts: with open(<json>, 'w') as f: json.dump(output, f); PN returns output,
\* PA falls off the end (None)
WriteFile ==
    /\ pc \in {"write", "write2"} /\ IsCsv
    /\ files' = [files EXCEPT ![WriteTarget] = Written(WriteOutput)]
    /\ IF WriteIndex < Len(Proc.files)
       THEN /\ pc' = "write2"
            /\ result' = result
       ELSE /\ pc' = "ret"
            /\ result' = [result EXCEPT !.st = "returned", !.why = "done",
                                        !.value = IF script = "PN" THEN "output" ELSE "None"]
    /\ UNCHANGED <<mailvars, script, mode, feed, pidx, ti, blocks, rl_cameras, fetches,
                   success, exitcode, calls>>

\* open(.., 'w') raises: the file is untouched
WriteOpenFails ==
    /\ pc \in {"write", "write2"} /\ IsCsv
    /\ result' = [result EXCEPT !.st = "raised", !.why = "write_open"]
    /\ pc' = "ret"
    /\ UNCHANGED <<mailvars, script, mode, feed, pidx, ti, blocks, rl_cameras, fetches, files,
                   success, exitcode, calls>>

\* json.dump raises after open(.., 'w') truncated the file
WriteDumpFails ==
    /\ pc \in {"write", "write2"} /\ IsCsv
    /\ files' = [files EXCEPT ![WriteTarget] = Partial]
    /\ result' = [result EXCEPT !.st = "raised", !.why = "write_dump"]
    /\ pc' = "ret"
    /\ UNCHANGED <<mailvars, script, mode, feed, pidx, ti, blocks, rl_cameras, fetches,
                   success, exitcode, calls>>

(***************************************************************************)
(* __main__ of the CSV scripts: the processors are called one after the    *)
(* other, with no handler.                                                 *)
(***************************************************************************)
Traceback ==
    /\ mode = "main" /\ IsCsv /\ pc = "ret"
    /\ result.st = "raised"
    /\ exitcode' = 1
    /\ pc' = "exit"
    /\ UNCHANGED <<mailvars, script, mode, feed, pidx, ti, blocks, rl_cameras, fetches, result, files,
                   success, calls>>

Continue ==
    /\ mode = "main" /\ IsCsv /\ pc = "ret"
    /\ result.st = "returned"
    /\ pidx < Len(Processors(script))
    /\ pidx' = pidx + 1
    /\ pc' = "call"
    /\ UNCHANGED <<mailvars, script, mode, feed, ti, blocks, rl_cameras, fetches, result, files,
                   success, exitcode, calls>>

Finish ==
    /\ mode = "main" /\ IsCsv /\ pc = "ret"
    /\ result.st = "returned"
    /\ pidx = Len(Processors(script))
    /\ exitcode' = 0
    /\ pc' = "exit"
    /\ UNCHANGED <<mailvars, script, mode, feed, pidx, ti, blocks, rl_cameras, fetches, result, files,
                   success, calls>>

(***************************************************************************)
(* main() of update-neighborhood-data.py.                                  *)
(***************************************************************************)
\* if not os.path.exists(output_dir): sys.exit(1)
OutputDirMissing ==
    /\ pc = "start"
    /\ exitcode' = 1
    /\ pc' = "exit"
    /\ UNCHANGED <<mailvars, script, mode, feed, pidx, ti, blocks, rl_cameras, fetches, result, files,
                   success, calls>>

\* success = True; for filename, processor in processors:
EnterLoop ==
    /\ pc = "start"
    /\ success' = "True"
    /\ pc' = "call"
    /\ UNCHANGED <<mailvars, script, mode, feed, pidx, ti, blocks, rl_cameras, fetches, result, files,
                   exitcode, calls>>

\* if data: open(output_path, 'w'); json.dump(data, f)
WriteResult ==
    /\ mode = "main" /\ script = "UN" /\ pc = "ret"
    /\ result.st = "returned" /\ result.value = "output"
    /\ files' = [files EXCEPT ![Proc.files[1]] = Written(result.out)]
    /\ pc' = "handled"
    /\ UNCHANGED <<mailvars, script, mode, feed, pidx, ti, blocks, rl_cameras, fetches, result,
                   success, exitcode, calls>>

\* open raises: except Exception -> success = False
WriteResultOpenFails ==
    /\ mode = "main" /\ script = "UN" /\ pc = "ret"
    /\ result.st = "returned" /\ result.value = "output"
    /\ success' = "False"
    /\ pc' = "handled"
    /\ UNCHANGED <<mailvars, script, mode, feed, pidx, ti, blocks, rl_cameras, fetches, result, files,
                   exitcode, calls>>

\* json.dump raises after the file was truncated: except Exception -> success = False
WriteResultDumpFails ==
    /\ mode = "main" /\ script = "UN" /\ pc = "ret"
    /\ result.st = "returned" /\ result.value = "output"
    /\ files' = [files EXCEPT ![Proc.files[1]] = Partial]
    /\ success' = "False"
    /\ pc' = "handled"
    /\ UNCHANGED <<mailvars, script, mode, feed, pidx, ti, blocks, rl_cameras, fetches, result,
                   exitcode, calls>>

\* else: print FAILED; success = False
ReportFailed ==
    /\ mode = "main" /\ script = "UN" /\ pc = "ret"
    /\ result.st = "returned" /\ result.value = "None"
    /\ success' = "False"
    /\ pc' = "handled"
    /\ UNCHANGED <<mailvars, script, mode, feed, pidx, ti, blocks, rl_cameras, fetches, result, files,
                   exitcode, calls>>

\* the processor raised: except Exception -> print ERROR; success = False
ReportError ==
    /\ mode = "main" /\ script = "UN" /\ pc = "ret"
    /\ result.st = "raised"
    /\ success' = "False"
    /\ pc' = "handled"
    /\ UNCHANGED <<mailvars, script, mode, feed, pidx, ti, blocks, rl_cameras, fetches, result, files,
                   exitcode, calls>>

NextProcessor ==
    /\ pc = "handled"
    /\ pidx < Len(Processors(script))
    /\ pidx' = pidx + 1
    /\ pc' = "call"
    /\ UNCHANGED <<mailvars, script, mode, feed, ti, blocks, rl_cameras, fetches, result, files,
                   success, exitcode, calls>>

\* an exit whose status ignores the success flag
ExitZero ==
    /\ pc = "handled"
    /\ pidx = Len(Processors(script))
    /\ exitcode' = 0
    /\ pc' = "exit"
    /\ UNCHANGED <<mailvars, script, mode, feed, pidx, ti, blocks, rl_cameras, fetches, result, files,
                   success, calls>>

\* sys.exit(0 if success else 1)
Exit ==
    /\ pc = "handled"
    /\ pidx = Len(Processors(script))
    /\ exitcode' = IF success = "True" THEN 0 ELSE 1
    /\ pc' = "exit"
    /\ UNCHANGED <<mailvars, script, mode, feed, pidx, ti, blocks, rl_cameras, fetches, result, files,
                   success, calls>>

Next ==
    \/ Invoke
    \/ OpenInput
    \/ OpenInputFails
    \/ Fetch
    \/ FetchFails
    \/ Start311
    \/ FetchType
    \/ FetchTypeFails
    \/ FoldRow
    \/ RowRaises
    \/ ReaderRaises
    \/ EndOfData
    \/ EndOfType
    \/ AllTypesDone
    \/ OpenSpeed
    \/ OpenSpeedFails
    \/ FoldSpeedRow
    \/ EndOfSpeed
    \/ BuildOutput
    \/ BuildRaises
    \/ WriteFile
    \/ WriteOpenFails
    \/ WriteDumpFails
    \/ Traceback
    \/ Continue
    \/ Finish
    \/ OutputDirMissing
    \/ EnterLoop
    \/ WriteResult
    \/ WriteResultOpenFails
    \/ WriteResultDumpFails
    \/ ReportFailed
    \/ ReportError
    \/ NextProcessor
    \/ Exit

Spec == Init /\ [][Next]_vars

\* the feeds in which two records differ in what a script emits apart from ward and
\* address: labels, numeric fields, sort keys, and the address columns of a camera
OrderFeed ==
    \/ feed \in {"labels", "sort"}
    \/ feed = "latch" /\ Kind = "PACamera"
    \/ feed = "nums" /\ Kind \in {"PAPermits", "UNPermits", "PAPotholes", "UNPotholes"}

\* the runs of those feeds, and the runs of the main block
InitOrder ==
    /\ MailIdle
    /\ script \in Scripts
    /\ mode \in {"unit", "main"}
    /\ feed \in IF mode = "unit" THEN {"nums", "latch", "labels", "sort"} ELSE {"abort"}
    /\ pidx \in IF mode = "unit" THEN 1..Len(Processors(script)) ELSE {1}
    /\ mode = "unit" => OrderFeed
    /\ pc = IF mode = "main" /\ script = "UN" THEN "start" ELSE "call"
    /\ ti = 0
    /\ blocks = <<>>
    /\ rl_cameras = <<>>
    /\ fetches = {}
    /\ result = Running
    /\ files = [f \in OutputFiles |-> Old]
    /\ success = "unset"
    /\ exitcode = -1
    /\ calls = <<>>

SpecOrder == InitOrder /\ [][Next]_vars

\* the runs whose records differ in coordinates, labels or dates, and the runs of the main
\* block
InitFold ==
    /\ MailIdle
    /\ script \in Scripts
    /\ mode \in {"unit", "main"}
    /\ feed \in IF mode = "unit" THEN {"coords", "labels", "dates", "cameras"} ELSE {"abort"}
    /\ pidx \in IF mode = "unit" THEN 1..Len(Processors(script)) ELSE {1}
    /\ feed = "cameras" => Kind = "PACamera"
    /\ pc = IF mode = "main" /\ script = "UN" THEN "start" ELSE "call"
    /\ ti = 0
    /\ blocks = <<>>
    /\ rl_cameras = <<>>
    /\ fetches = {}
    /\ result = Running
    /\ files = [f \in OutputFiles |-> Old]
    /\ success = "unset"
    /\ exitcode = -1
    /\ calls = <<>>

SpecFold == InitFold /\ [][Next]_vars

(***************************************************************************)
(* Claims.                                                                 *)
(***************************************************************************)
\* a processor call has ended normally, with its output built
Emitted == pc = "ret" /\ result.why = "done" /\ Kind \in GridKinds

\* the record's coordinates are not numbers strictly inside the box
Rejected(r) ==
    LET lat == float_coord(r.lat)
        lng == float_coord(r.lng)
    IN  ~(lat.ok /\ lng.ok /\ InBox(lat.v, lng.v))

\* C1: in every grid fold, a record whose coordinates are outside the box, on its boundary,
\* missing or unparseable leaves every cell and counter unchanged and raises no error.
C1_RejectedRecordIsNoOp ==
    (pc = "fold" /\ feed = "coords" /\ Kind \in GridKinds) =>
        \A r \in InputRows :
            Rejected(r) => Fold(Kind, blocks, r, Category) = [b |-> blocks, err |-> FALSE]

\* how often the cell of blocks[j] occurs in the data array
Occurrences(data, key) ==
    Cardinality({i \in 1..Len(data) : data[i][1] = key[1] /\ data[i][2] = key[2]})

EmittedIffAtLeast(T(_)) ==
    Emitted =>
        /\ \A j \in 1..Len(blocks) :
              Occurrences(result.out.data, blocks[j].key)
                  = IF blocks[j].c.count >= T(Kind) THEN 1 ELSE 0
        /\ \A i \in 1..Len(result.out.data) :
              \E j \in 1..Len(blocks) : /\ blocks[j].key[1] = result.out.data[i][1]
                                        /\ blocks[j].key[2] = result.out.data[i][2]
                                        /\ blocks[j].c.count = result.out.data[i][3]

\* the thresholds as the specification lists them, for every script
SpecThreshold(kind) ==
    CASE kind \in {"PN311", "UN311"} -> 3
      [] kind \in {"PAPermits", "UNPermits"} -> 5
      [] kind \in {"PALicenses", "UNLicenses"} -> 3
      [] kind \in {"PNCrimes", "UNCrimes"} -> 2
      [] kind \in {"PNCrashes", "UNCrashes"} -> 3
      [] kind = "UNViolations" -> 2
      [] kind \in {"PAPotholes", "UNPotholes"} -> 3

\* the thresholds of the amended claim: the API script keeps potholes, permits and
\* licenses cells from count 2 on
AmendedThreshold(kind) ==
    IF kind \in {"UNPotholes", "UNPermits", "UNLicenses"} THEN 2 ELSE SpecThreshold(kind)

ScoredKinds == {"PN311", "PNCrimes", "PNCrashes", "PAPermits", "PALicenses", "PAPotholes",
                "UN311", "UNCrimes", "UNCrashes", "UNViolations"}

\* position of the score in a data row
ScoreAt(kind) == IF kind = "PAPotholes" THEN 5 ELSE 4

\* C3: every emitted score is an integer between 0 and 100, whatever the counters.
C3_ScoreWithinBounds ==
    (Emitted /\ Kind \in ScoredKinds) =>
        \A i \in 1..Len(result.out.data) :
            /\ result.out.data[i][ScoreAt(Kind)] \in Int
            /\ 0 <= result.out.data[i][ScoreAt(Kind)]
            /\ result.out.data[i][ScoreAt(Kind)] <= 100

\* a category map as a set of (name, count) pairs
CatSet(cats) == {<<cats[j].key, cats[j].c>> : j \in 1..Len(cats)}

\* the counters of a cell: everything but ward and address
Counters(kind, c) ==
    CASE kind \in {"PN311", "UN311"} -> <<c.count, CatSet(c.categories), c.recent_count>>
      [] kind \in {"PNCrimes", "UNCrimes"} -> <<c.count, CatSet(c.categories), c.arrests>>
      [] kind \in {"PNCrashes", "UNCrashes"} -> <<c.count, c.injuries, c.fatal, c.hit_and_run>>
      [] kind = "PAPermits" -> <<c.count, CatSet(c.categories), c.total_cost, c.recent_count>>
      [] kind = "PALicenses" -> <<c.count, CatSet(c.categories), c.active>>
      [] kind = "PAPotholes" -> <<c.count, c.potholes_filled, c.recent_count>>
      [] kind = "UNViolations" -> <<c.count, c.high_risk, c.open>>
      [] kind = "UNPotholes" -> <<c.count, c.filled, c.completed>>
      [] kind = "UNPermits" -> <<c.count, c.issued, c.cost>>
      [] kind = "UNLicenses" -> <<c.count, c.active>>

\* the cells of a dict with their counters, regardless of insertion order
CounterSet(kind, b) == {<<b[j].key, Counters(kind, b[j].c)>> : j \in 1..Len(b)}

\* C4: folding the same valid records in another order gives the same cells with the same
\* count, category counts and numeric sums.  Stated for two records folded next, from any
\* reachable dict: swapping two neighbours generates every reordering.
C4_FoldOrderIndependent ==
    (pc = "fold" /\ feed \in {"nums", "latch"} /\ Kind \in GridKinds) =>
        \A r1, r2 \in InputRows :
            LET a1 == Fold(Kind, blocks, r1, Category)
                a2 == Fold(Kind, a1.b, r2, Category)
                b1 == Fold(Kind, blocks, r2, Category)
                b2 == Fold(Kind, b1.b, r1, Category)
            IN  (~a1.err /\ ~a2.err /\ ~b1.err /\ ~b2.err) =>
                    CounterSet(Kind, a2.b) = CounterSet(Kind, b2.b)

HasWard(kind) == kind \in {"PN311", "PNCrimes", "PAPermits", "PALicenses", "UN311", "UNCrimes"}

WardOf(kind, c) == IF HasWard(kind) THEN c.ward ELSE NONE

\* how ward and address of every cell may change when one more record r is folded:
\* Keep(old) says when the value a cell holds is kept
LatchStep(Keep(_)) ==
    (pc = "fold" /\ feed = "latch" /\ Kind \in GridKinds) =>
        \A r \in InputRows :
            LET f == Fold(Kind, blocks, r, Category)
            IN  ~f.err =>
                  \A j \in 1..Len(f.b) :
                      LET new == f.b[j].c
                          fresh == j > Len(blocks)
                          hit == fresh \/ new.count # blocks[j].c.count
                          oldward == IF fresh THEN NONE ELSE WardOf(Kind, blocks[j].c)
                          oldaddr == IF fresh THEN NONE ELSE blocks[j].c.address
                      IN  /\ WardOf(Kind, new) =
                               IF ~hit \/ (~fresh /\ Keep(oldward)) THEN oldward
                               ELSE IF HasWard(Kind) THEN r.ward ELSE NONE
                          /\ new.address =
                               IF ~hit \/ (~fresh /\ Keep(oldaddr)) THEN oldaddr ELSE r.addr

KeepNonEmpty(old) == Truthy(old)

KeepAlways(old) == TRUE

\* C5 (amended): ward and address of a cell are taken from the first record folded into the
\* cell whose value is non-empty; a non-empty value is never changed by a later record,
\* while an empty one (None or '') is replaced by the value of the next record of the cell.
C5_LatchOnFirstNonEmpty == LatchStep(KeepNonEmpty)

\* C5 as stated: the values are those of the first record of the cell and never change
\* afterwards, also when the first record's value is the empty string.
C5_LatchOnFirstRecord == LatchStep(KeepAlways)

\* C5 witness: a cell of two or more records whose address was latched by a record with an
\* empty ward, and whose ward comes from a later record with another address
C5_Witness ==
    /\ pc = "fold" /\ feed = "latch" /\ HasWard(Kind)
    /\ \E j \in 1..Len(blocks) : /\ blocks[j].c.count >= 2
                                 /\ blocks[j].c.ward = "27"
                                 /\ blocks[j].c.address = "100 N STATE ST"

UNFiles == {Processors("UN")[j].files[1] : j \in 1..Len(Processors("UN"))}

IsPrefix(s, t) == Len(s) <= Len(t) /\ \A j \in 1..Len(s) : s[j] = t[j]

\* the update script has left its main loop
LoopDone == script = "UN" /\ mode = "main" /\ pc = "exit" /\ success # "unset"

\* C6: the update script's loop calls the seven processors once each, in list order, whatever
\* fails; it exits 0 iff every processor returned a result and its file was written; a file
\* changes only when main handles a returned result, and then only that processor's file.
C6_MainLoopRunsAllAndReports ==
    /\ []((script = "UN" /\ mode = "main") => IsPrefix(calls, ProcessorNames("UN")))
    /\ [](LoopDone => calls = ProcessorNames("UN"))
    /\ [](LoopDone => (exitcode = 0 <=> \A f \in UNFiles : files[f].state = "written"))
    /\ [][(script = "UN" /\ mode = "main" /\ files' # files) =>
            /\ pc = "ret" /\ result.st = "returned" /\ result.value = "output"
            /\ \A f \in OutputFiles : f # Proc.files[1] => files'[f] = files[f]]_vars

\* C6 witness: a run that called all seven processors, left crimes-data.json untouched,
\* still wrote licenses-data.json, and exits 1
C6_Witness ==
    /\ LoopDone /\ exitcode = 1
    /\ calls = ProcessorNames("UN")
    /\ files["crimes-data.json"].state = "old"
    /\ files["licenses-data.json"].state = "written"

\* C7: when every fetch of a dataset raises, its processor returns no result, its file is
\* not written and the run exits non-zero.
C7_SourceFailureMeansNoResult ==
    (script = "UN" /\ pc \in {"ret", "handled", "exit"} /\ fetches = {"error"}) =>
        /\ result.value = "None"
        /\ (mode = "main" /\ pc \in {"handled", "exit"}) =>
              files[Proc.files[1]].state = "old" /\ success = "False"
        /\ (mode = "main" /\ pc = "exit") => exitcode # 0

\* C8: in all three scripts an exception raised while one dataset is aggregated stops at
\* that dataset: the run ends with every processor of the script called.
C8_LaterDatasetsStillProcessed ==
    (mode = "main" /\ pc = "exit" /\ (script = "UN" => success # "unset")) =>
        calls = ProcessorNames(script)

\* the stream of the current grid processor stopped part-way: the reader or a record raised,
\* or (process_311) a fetch failed while records of other types were folded
Aborted ==
    \/ result.why \in {"row", "read"}
    \/ Kind = "UN311" /\ "error" \in fetches /\ Len(blocks) > 0

\* C9: a dataset whose stream stops part-way still yields the aggregation of the records
\* consumed so far, not no result.
C9_AbortedStreamStillYieldsAggregation ==
    (pc = "ret" /\ Kind \in GridKinds /\ Aborted) =>
        /\ result.st = "returned"
        /\ result.out = Emit(Kind, blocks)
        /\ ~IsCsv => result.value = "output"

\* what an integer column is worth: 0 when missing, empty or unparseable
IntWorth(raw) == IF raw \in {MISSING, NONE, ""} \/ ~int_(raw).ok THEN 0 ELSE int_(raw).v

\* what a cost column is worth, on the text the processor hands to float()
CostWorth(kind, raw) ==
    LET s == IF raw \in {MISSING, NONE} THEN ""
             ELSE IF kind = "PAPermits" THEN StripCurrency(raw) ELSE raw
    IN  IF s = "" \/ ~float_cost(s).ok THEN DZero ELSE float_cost(s).v

NumericKinds == {"PNCrashes", "UNCrashes", "PAPermits", "UNPermits", "PAPotholes", "UNPotholes"}

\* C10: a numeric field that is empty, missing or unparseable adds 0 to its sum, the other
\* numeric fields of the record are still added, and the record is counted.
C10_BadNumericFieldAddsZero ==
    (pc = "fold" /\ feed = "nums" /\ Kind \in NumericKinds /\ Len(blocks) = 1) =>
        \A r \in InputRows :
            LET f == Fold(Kind, blocks, r, Category)
                old == blocks[1].c
                new == f.b[1].c
            IN  /\ ~f.err
                /\ new.count = old.count + 1
                /\ CASE Kind \in {"PNCrashes", "UNCrashes"} ->
                          /\ new.injuries = old.injuries + IntWorth(r.n1)
                          /\ new.fatal = old.fatal + IntWorth(r.n2)
                     [] Kind = "PAPermits" ->
                          new.total_cost = DAdd(old.total_cost, CostWorth(Kind, r.n1))
                     [] Kind = "UNPermits" ->
                          new.cost = DAdd(old.cost, CostWorth(Kind, r.n1))
                     [] Kind = "PAPotholes" ->
                          new.potholes_filled = old.potholes_filled + IntWorth(r.n1)
                     [] Kind = "UNPotholes" ->
                          new.filled = old.filled + IntWorth(r.n1)

\* ---- classification ----
\* the datasets whose category is computed from a label of the record
LabelKinds == {"PN311", "PNCrimes", "UNCrimes", "PAPermits", "PALicenses"}

TableOf(kind) ==
    CASE kind = "PN311" -> RELEVANT_CATEGORIES
      [] kind \in {"PNCrimes", "UNCrimes"} -> CRIME_CATEGORIES
      [] kind = "PAPermits" -> PERMIT_TYPES
      [] kind = "PALicenses" -> LICENSE_TYPES

CatNames(kind) == {TableOf(kind)[j].cat : j \in 1..Len(TableOf(kind))} \cup {"other"}

CatsOfCell(b, key) == IF Has(b, key) THEN Cell(b, key).categories ELSE <<>>

\* the categories some cell has one more record of after the step from b to b2
Assigned(kind, b, b2) ==
    {k \in CatNames(kind) :
        \E j \in 1..Len(b2) : CatGet(b2[j].c.categories, k) > CatGet(CatsOfCell(b, b2[j].key), k)}

\* the first category, in table order, with a keyword that occurs in cs; both sides are
\* uppercased first when fold_case
FirstCategory(tbl, cs, fold_case) ==
    LET norm(x) == IF fold_case THEN Upper(x) ELSE x
        hit(j) == \E i \in 1..Len(tbl[j].kws) : Contains(norm(cs), norm(tbl[j].kws[i]))
        hits == {j \in 1..Len(tbl) : hit(j)}
    IN  IF hits = {} THEN NONE ELSE tbl[CHOOSE j \in hits : \A k \in hits : j <= k].cat

\* the category whose keyword list holds cs itself
ExactCategory(tbl, cs) ==
    LET hits == {j \in 1..Len(tbl) : \E i \in 1..Len(tbl[j].kws) : tbl[j].kws[i] = cs}
    IN  IF hits = {} THEN NONE ELSE tbl[CHOOSE j \in hits : TRUE].cat

\* what a record of the label feed does to the categories, given the category want(kind, cs)
\* its label should get (NONE: no keyword matches)
ClassifiedAs(want(_, _)) ==
    (pc = "fold" /\ feed = "labels" /\ Kind \in LabelKinds) =>
        \A r \in InputRows :
            LET f == Fold(Kind, blocks, r, Category)
                c == want(Kind, Chars(r.label))
            IN  /\ ~f.err
                /\ Assigned(Kind, blocks, f.b) =
                      IF c # NONE THEN {c} ELSE IF Kind = "PN311" THEN {} ELSE {"other"}

WantCaseInsensitive(kind, cs) == FirstCategory(TableOf(kind), cs, TRUE)

WantAsCoded(kind, cs) ==
    CASE kind = "PN311" -> FirstCategory(TableOf(kind), cs, FALSE)
      [] kind \in {"PNCrimes", "UNCrimes"} -> ExactCategory(TableOf(kind), Strip(cs))
      [] OTHER -> FirstCategory(TableOf(kind), cs, TRUE)

\* C11 (amended): permits and licenses get the first category, in table order, with a keyword
\* that occurs in the uppercased label; 311 requests get the first category, in table order,
\* with a keyword that occurs in the label as written (case-sensitive); crimes get the
\* category whose keyword equals the stripped label exactly, else `other`.
C11_ClassificationAsCoded == ClassifiedAs(WantAsCoded)

\* C11 as stated: in 311, crimes, permits and licenses alike the category is the first
\* one, in table order, with a keyword occurring case-insensitively in the label.
C11_CaseInsensitiveSubstringEverywhere == ClassifiedAs(WantCaseInsensitive)

\* C11 witness: licenses folded 'Tavern' (a lower-case hit) into food and 'Tobacco Retail
\* Over Counter' (keywords of retail and of tobacco) into retail, the earlier category
C11_Witness ==
    /\ pc = "fold" /\ feed = "labels" /\ Kind = "PALicenses"
    /\ \E j \in 1..Len(blocks) : /\ CatGet(blocks[j].c.categories, "food") = 1
                                 /\ CatGet(blocks[j].c.categories, "retail") = 1
                                 /\ CatGet(blocks[j].c.categories, "tobacco") = 0
                                 /\ blocks[j].c.count = 2

\* the label of a record matches no keyword, by the match its processor uses
NoKeyword(kind, label) == label \in {NONE, MISSING} \/ WantAsCoded(kind, Chars(label)) = NONE

\* C12: a 311 record whose label matches no keyword never creates or changes a cell; a
\* crimes, permits or licenses record with valid coordinates is always counted and gets
\* exactly one category, which is `other` when no keyword matches.
C12_UnclassifiablePolicyPerDataset ==
    (pc = "fold" /\ feed \in {"labels", "coords"} /\ Kind \in LabelKinds) =>
        \A r \in InputRows :
            LET f == Fold(Kind, blocks, r, Category)
            IN  IF Kind = "PN311"
                THEN NoKeyword(Kind, r.label) => f.b = blocks
                ELSE ~Rejected(r) =>
                        /\ ~f.err
                        /\ SumCells(f.b, CountOf) = SumCells(blocks, CountOf) + 1
                        /\ Cardinality(Assigned(Kind, blocks, f.b)) = 1
                        /\ NoKeyword(Kind, r.label) => Assigned(Kind, blocks, f.b) = {"other"}

\* the data array is in descending order of the value at position pos
SortedDescBy(data, pos) == \A i, j \in 1..Len(data) : i < j => data[i][pos] >= data[j][pos]

\* C13 (amended): the potholes output of the CSV script (process-additional-data.py) is
\* ordered by potholes-filled sum descending, not by request count; that of the API script
\* (update-neighborhood-data.py) is ordered by request count descending.
C13_PotholesOrderPerScript ==
    (Emitted /\ Kind \in {"PAPotholes", "UNPotholes"}) =>
        SortedDescBy(result.out.data, IF Kind = "PAPotholes" THEN 4 ELSE 3)

\* C13 as stated: in every script the potholes output is ordered by potholes-filled sum
\* descending (the sum is at position 4 of the row in both scripts).
C13_PotholesOrderedByFilled ==
    (Emitted /\ Kind \in {"PAPotholes", "UNPotholes"}) => SortedDescBy(result.out.data, 4)

\* C13 witness: the CSV script emits a cell with fewer requests but more potholes filled
\* ahead of a cell with more requests
C13_Witness ==
    /\ Emitted /\ Kind = "PAPotholes" /\ Len(result.out.data) = 2
    /\ result.out.data[1][3] < result.out.data[2][3]
    /\ result.out.data[1][4] > result.out.data[2][4]

\* ---- layout of the data rows ----
\* the score of a cell by the formula of its dataset
ScoreOf(kind, c) ==
    CASE kind \in {"PN311", "UN311", "PALicenses", "UNLicenses"} -> ScoreCount50(c.count)
      [] kind \in {"PNCrimes", "UNCrimes"} -> ScoreCrimes(c)
      [] kind \in {"PNCrashes", "UNCrashes"} -> ScoreCrashes(c)
      [] kind = "UNViolations" -> ScoreViolations(c)
      [] kind = "PAPermits" -> ScorePermits(c)
      [] kind = "UNPermits" -> ScorePermits([count |-> c.count, total_cost |-> c.cost])
      [] kind = "PAPotholes" -> ScorePotholes(c)
      [] kind = "UNPotholes" -> ScorePotholes([potholes_filled |-> c.filled])

\* what the code puts at position 4 of a row
FourthField(kind, c) ==
    CASE kind = "PAPotholes" -> c.potholes_filled
      [] kind = "UNPotholes" -> c.filled
      [] kind = "UNPermits" -> c.issued
      [] kind = "UNLicenses" -> c.active
      [] OTHER -> ScoreOf(kind, c)

\* every emitted row starts with the cell's coordinates and count, and has Fourth(kind, cell)
\* at position 4
RowLayout(Fourth(_, _)) ==
    Emitted =>
        \A i \in 1..Len(result.out.data) :
            LET row == result.out.data[i]
                key == <<row[1], row[2]>>
            IN  /\ Has(blocks, key)
                /\ row[3] = Cell(blocks, key).count
                /\ row[4] = Fourth(Kind, Cell(blocks, key))

\* C14 (amended): every row of every grid dataset starts [lat, lng, count, ...]; position 4
\* is the score in requests, crimes, crashes, violations and in the CSV script's permits and
\* licenses; in the CSV script's potholes position 4 is the potholes-filled sum and the
\* score is at position 5; the API script's potholes, permits and licenses rows carry no
\* score: their position 4 is the filled sum, the issued count and the active count.
C14_RowLayoutPerDataset ==
    /\ RowLayout(FourthField)
    /\ (Emitted /\ Kind = "PAPotholes") =>
          \A i \in 1..Len(result.out.data) :
              result.out.data[i][5] =
                  ScoreOf(Kind, Cell(blocks, <<result.out.data[i][1], result.out.data[i][2]>>))

\* C14 as stated: position 3 is the count and position 4 the score, in every grid dataset
\* of every script.
C14_CountThenScoreEverywhere == RowLayout(ScoreOf)

\* C14 witness: a potholes row of the CSV script: 3 requests, 30 potholes filled, score 60
C14_Witness ==
    /\ Emitted /\ Kind = "PAPotholes"
    /\ \E i \in 1..Len(result.out.data) : /\ result.out.data[i][3] = 3
                                           /\ result.out.data[i][4] = 30
                                           /\ result.out.data[i][5] = 60

\* ---- two orders of the same records ----
\* the cells with ward and address blanked
Blanked(kind, b) ==
    [j \in 1..Len(b) |->
        [b[j] EXCEPT !.c = IF HasWard(kind) THEN [@ EXCEPT !.ward = "", !.address = ""]
                           ELSE [@ EXCEPT !.address = ""]]]

\* what the processor emits from b, the ward/address fields of grid cells apart
EmitApartFromLatch(kind, b) ==
    IF kind = "PACamera" THEN EmitRedLight(b) ELSE Emit(kind, Blanked(kind, b))

\* two records folded next in either order, from any reachable dict, give outputs that
\* are Same(kind, _, _).  Swapping two neighbours generates every reordering.
TwoOrders(Same(_, _, _)) ==
    (pc = "fold" /\ OrderFeed) =>
        \A r1, r2 \in InputRows :
            LET a1 == Fold(Kind, blocks, r1, Category)
                a2 == Fold(Kind, a1.b, r2, Category)
                b1 == Fold(Kind, blocks, r2, Category)
                b2 == Fold(Kind, b1.b, r1, Category)
            IN  (/\ ~a1.err /\ ~a2.err /\ ~b1.err /\ ~b2.err
                 /\ ~EmitRaises(Kind, a2.b) /\ ~EmitRaises(Kind, b2.b)) =>
                    Same(Kind, EmitApartFromLatch(Kind, a2.b), EmitApartFromLatch(Kind, b2.b))

Identical(kind, x, y) == x = y

\* a data row without what depends on the order of the records: the category map as a
\* mapping, no cost sum and no score computed from it, no camera location or address
Canon(kind, row) ==
    CASE kind \in {"PN311", "UN311", "PNCrimes", "UNCrimes", "PALicenses"} ->
             [row EXCEPT ![5] = CatSet(@)]
      [] kind = "PAPermits" -> [row EXCEPT ![5] = CatSet(@), ![4] = 0, ![8] = 0]
      [] kind = "UNPermits" -> [row EXCEPT ![5] = 0]
      [] kind = "PACamera" -> <<row[3], row[4]>>
      [] OTHER -> row

MetaCanon(kind, meta) == IF kind = "UNPermits" THEN [meta EXCEPT !.total_cost = 0] ELSE meta

SortPos(kind) == IF kind = "PAPotholes" THEN 4 ELSE 3

SameUpToOrderEffects(kind, x, y) ==
    /\ MetaCanon(kind, x.meta) = MetaCanon(kind, y.meta)
    /\ Len(x.data) = Len(y.data)
    /\ {Canon(kind, x.data[i]) : i \in 1..Len(x.data)} = {Canon(kind, y.data[i]) : i \in 1..Len(y.data)}
    /\ SortedDescBy(x.data, SortPos(kind)) /\ SortedDescBy(y.data, SortPos(kind))

\* C15 (amended): for two orderings of the same records a script emits the same cells (and
\* cameras) with the same counts, integer sums, category counts and scores, rows with
\* different sort keys in the same order.  Besides the ward/address latch the order of the
\* records shows in: the order of rows with equal sort keys and the key order of category
\* maps (both are orders of first appearance), the location and address of a camera (the
\* last record wins), and the floating-point cost sum of permits with the score computed
\* from it (and, where that sum overflows in one order only, whether the permits output
\* is written at all: the formula compares the orders that both emit).
C15_OrderShowsOnlyInListedPlaces == TwoOrders(SameUpToOrderEffects)

\* C15 as stated: for two orderings of the same records everything emitted is identical
\* except the ward/address fields of grid cells.
C15_OrderShowsOnlyInLatch == TwoOrders(Identical)

\* C15 witness: a crimes cell whose category map lists violent before property, one record
\* of each: the same two records in the other order list property first
C15_Witness ==
    /\ pc = "fold" /\ feed = "labels" /\ Kind = "PNCrimes"
    /\ \E j \in 1..Len(blocks) :
          /\ blocks[j].c.count = 2
          /\ Len(blocks[j].c.categories) = 2
          /\ blocks[j].c.categories[1] = [key |-> "violent", c |-> 1]
          /\ blocks[j].c.categories[2] = [key |-> "property", c |-> 1]

\* ---- the crimes score ----
\* s = min(100, trunc(x)) for x = (violent*3 + property) / count * 50 + count / 20 * 25,
\* stated on x * 20 * count, which is an integer
IsCrimesScore(s, count, violent, property_crime) ==
    LET x20c == (violent * 3 + property_crime) * 1000 + 25 * count * count
    IN  IF x20c >= 100 * 20 * count
        THEN s = 100
        ELSE s \in 0..99 /\ s * 20 * count <= x20c /\ x20c < (s + 1) * 20 * count

BlockSizeOf == CASE script = "PN" -> BLOCK_SIZE_PN
                 [] script = "PA" -> BLOCK_SIZE_PA
                 [] OTHER -> BLOCK_SIZE_UN

Abs(x) == IF x < 0 THEN -x ELSE x

\* the keys of the cells of b2 that b has not, or has with other contents
TouchedKeys(b, b2) ==
    {b2[j].key : j \in {i \in 1..Len(b2) : ~Has(b, b2[i].key) \/ Cell(b, b2[i].key) # b2[i].c}}

\* k is a multiple of bs nearest to x
IsNearest(x, k, bs) == k % bs = 0 /\ 2 * Abs(x - k) <= bs

\* x / bs is exactly halfway between two integers
IsTie(x, bs) == (2 * x) % bs = 0 /\ x % bs # 0

HalfToEven(x, k, bs) == IsNearest(x, k, bs) /\ (IsTie(x, bs) => (k \div bs) % 2 = 0)

HalfAwayFromZero(x, k, bs) == IsNearest(x, k, bs) /\ (IsTie(x, bs) => Abs(k) > Abs(x))

\* every accepted record is counted in exactly one cell, whose key is related by Rule to
\* the record's latitude and longitude
QuantizedBy(Rule(_, _, _)) ==
    (pc = "fold" /\ feed = "ties" /\ Kind \in GridKinds) =>
        \A r \in InputRows :
            LET f == Fold(Kind, blocks, r, Category)
                keys == TouchedKeys(blocks, f.b)
            IN  (~f.err /\ f.b # blocks) =>
                    /\ Cardinality(keys) = 1
                    /\ \A k \in keys : /\ Rule(float_coord(r.lat).v, k[1], BlockSizeOf)
                                        /\ Rule(float_coord(r.lng).v, k[2], BlockSizeOf)

\* C17 (amended): round_to_block rounds to the nearest multiple of the block size with
\* round-half-to-even semantics: when lat/BLOCK_SIZE (or lng/BLOCK_SIZE) is exactly halfway
\* between two integers n and n+1, the even one of the two is the cell index, for positive
\* and negative values.
C17_RoundHalfToEven == QuantizedBy(HalfToEven)

\* C17 as stated: at an exact half the cell index farther from zero is chosen.
C17_RoundHalfAwayFromZero == QuantizedBy(HalfAwayFromZero)

\* C17 witness: latitude 41.881 is 20940.5 blocks and longitude -87.633 is -43816.5 blocks;
\* their record is counted in the cell (41.880, -87.632), of the even indices 20940, -43816
C17_Witness ==
    /\ pc = "fold" /\ feed = "ties" /\ Kind = "PNCrimes"
    /\ Has(blocks, <<418800, -876320>>)
    /\ Cell(blocks, <<418800, -876320>>).count >= 1

\* C18: quantizing the key of a cell gives that key again, and a record located exactly at
\* the key of a cell is counted in that cell.
C18_QuantizationIdempotent ==
    (pc = "fold" /\ feed = "ties" /\ Kind \in GridKinds) =>
        \A j \in 1..Len(blocks) :
            LET k == blocks[j].key
                at == [DefaultRow(Kind) EXCEPT
                          !.lat = (CHOOSE l \in CoordLiterals : l.v = k[1]).lit,
                          !.lng = (CHOOSE l \in CoordLiterals : l.v = k[2]).lit]
                f == Fold(Kind, blocks, at, Category)
            IN  /\ round_to_block(k[1], k[2], BlockSizeOf) = k
                /\ \E l \in CoordLiterals : l.v = k[1]
                /\ \E l \in CoordLiterals : l.v = k[2]
                /\ ~f.err /\ Len(f.b) = Len(blocks)
                /\ Cell(f.b, k).count = blocks[j].c.count + 1

\* C18 witness: two permit records located exactly at (41.884, -87.632), a multiple of the
\* block size 0.004 in both coordinates, are counted in the cell of that key
C18_Witness ==
    /\ pc = "fold" /\ feed = "ties" /\ Kind = "PAPermits"
    /\ Has(blocks, <<418840, -876320>>)
    /\ Cell(blocks, <<418840, -876320>>).count = 2

\* ---- category counts ----
\* the datasets whose cells carry a category map
CategoryKinds == {"PN311", "UN311", "PNCrimes", "UNCrimes", "PAPermits", "PALicenses"}

\* sum(categories.values())
CatTotal(cats) ==
    LET S[i \in 0..Len(cats)] == IF i = 0 THEN 0 ELSE S[i - 1] + cats[i].c
    IN  S[Len(cats)]

\* C19: in every state of the fold of a category dataset (311, crimes, permits, licenses),
\* the category counts of every cell are positive and sum to the cell's count, so the sum
\* never exceeds the count.
C19_CategoryCountsSumToCount ==
    (pc = "fold" /\ Kind \in CategoryKinds) =>
        \A j \in 1..Len(blocks) :
            /\ \A i \in 1..Len(blocks[j].c.categories) : blocks[j].c.categories[i].c >= 1
            /\ CatTotal(blocks[j].c.categories) <= blocks[j].c.count
            /\ CatTotal(blocks[j].c.categories) = blocks[j].c.count

\* C19 witness: a cell of three licenses in two categories
C19_Witness ==
    /\ pc = "fold" /\ Kind = "PALicenses"
    /\ \E j \in 1..Len(blocks) :
          /\ blocks[j].c.count = 3
          /\ Len(blocks[j].c.categories) = 2
          /\ CatTotal(blocks[j].c.categories) = 3

\* ---- monotone accumulation ----
\* the integer accumulators of the cells
IntFields == {"count", "recent_count", "injuries", "fatal", "hit_and_run", "arrests",
              "potholes_filled", "filled", "completed", "active", "high_risk", "open",
              "issued", "violations"}

CostFields == {"total_cost", "cost"}

\* a <= b on floats
DLeq(a, b) ==
    \/ b.inf
    \/ ~a.inf /\ (a.big < b.big \/ (a.big = b.big /\ a.small <= b.small))

\* no accumulator of the cell new is below that of the cell old
NotBelow(old, new) ==
    /\ \A fld \in IntFields \cap DOMAIN old : new[fld] >= old[fld]
    /\ \A fld \in CostFields \cap DOMAIN old : DLeq(old[fld], new[fld])
    /\ "categories" \in DOMAIN old =>
          \A i \in 1..Len(old.categories) :
              CatGet(new.categories, old.categories[i].key) >= old.categories[i].c

\* C20: across the fold of any one record no cell is removed and no count, category
\* count, recent_count or numeric accumulator of a cell decreases.
C20_FoldIsAppendOnly ==
    pc = "fold" =>
        \A r \in InputRows :
            LET f == Fold(Kind, blocks, r, Category)
            IN  /\ Len(f.b) >= Len(blocks)
                /\ \A j \in 1..Len(blocks) : /\ f.b[j].key = blocks[j].key
                                              /\ NotBelow(blocks[j].c, f.b[j].c)

\* ---- phases ----
\* C21: in every processor call, records are folded only before the output is built (no
\* step leads back into a fold once filtering has begun), the output is built in the one
\* step after the fold, and from the end of the fold to the next call no step changes the
\* cell map: no cell or category is created, no counter or latch field modified.
C21_PhaseBoundary ==
    [][/\ pc' \in {"fold", "fold2"} => pc \in {"enter", "fetch", "fold", "fold2"}
       /\ result'.out # result.out => pc \in {"emit", "call"}
       /\ pc \notin {"call", "enter", "fetch", "fold", "fold2"} =>
              blocks' = blocks /\ rl_cameras' = rl_cameras]_vars

\* C21 witness: a crimes output has been built from a cell that has no violent crime,
\* whose score looked the missing category up
C21_Witness ==
    /\ Emitted /\ Kind \in {"PNCrimes", "UNCrimes"}
    /\ Len(result.out.data) >= 1
    /\ \E j \in 1..Len(blocks) :
          /\ blocks[j].c.count >= 2
          /\ ~Has(blocks[j].c.categories, "violent")
          /\ \E i \in 1..Len(result.out.data) :
                <<result.out.data[i][1], result.out.data[i][2]>> = blocks[j].key

\* ---- order of the data array ----
\* C22: in the emitted data array of every grid dataset other than potholes, the count of
\* every tuple is >= the count of the tuple after it.
C22_OrderedByCountDescending ==
    (Emitted /\ Kind \notin {"PAPotholes", "UNPotholes"}) =>
        \A i \in 1..(Len(result.out.data) - 1) :
            result.out.data[i][3] >= result.out.data[i + 1][3]

\* C22 witness: two emitted cells, the one that the fold created first having the smaller
\* count and being emitted second
C22_Witness ==
    /\ Emitted /\ Kind \notin {"PAPotholes", "UNPotholes"}
    /\ Len(result.out.data) = 2 /\ Len(blocks) = 2
    /\ blocks[1].c.count < blocks[2].c.count
    /\ <<result.out.data[1][1], result.out.data[1][2]>> = blocks[2].key
    /\ <<result.out.data[2][1], result.out.data[2][2]>> = blocks[1].key

(***************************************************************************)
(* C23: recency.                                                           *)
(***************************************************************************)

RecencyKinds == {"PN311", "UN311", "PAPermits", "PAPotholes"}

\* the trailing window of a dataset, in days
WindowOf(kind) == IF kind = "PAPermits" THEN 365 ELSE 90

RecentOf(c) == c.recent_count

\* the timestamp a record's date field denotes in the format of its dataset, if any
StampOf(kind, s) ==
    CASE kind \in {"PN311", "PAPotholes"} -> strptime_split(s)
      [] kind = "PAPermits" -> strptime_date(s)
      [] kind = "UN311" ->
           IF \E l \in IsoDates : l.lit = s
           THEN LET l == CHOOSE x \in IsoDates : x.lit = s
                IN  [ok |-> TRUE, t |-> [day |-> l.day, hour |-> l.hour]]
           ELSE [ok |-> FALSE, t |-> Now]

\* the timestamp parses and is not older than the window, measured from the time of processing
InsideWindow(kind, s) ==
    /\ s \notin {"", NONE, MISSING}
    /\ StampOf(kind, s).ok
    /\ Hours(Now) - Hours(StampOf(kind, s).t) <= WindowOf(kind) * 24

\* C23: in the datasets that track recency (311, permits, potholes), a folded record is
\* counted whatever its timestamp, and it adds exactly 1 to recent_count if and only if its
\* timestamp parses and is not older than the dataset's window (90 days, 365 for permits)
\* measured from the time of processing; otherwise recent_count is unchanged.
C23_RecentIffParsedAndInsideWindow ==
    (pc = "fold" /\ feed = "dates" /\ Kind \in RecencyKinds) =>
        \A r \in InputRows :
            LET f == Fold(Kind, blocks, r, Category)
            IN  /\ ~f.err
                /\ SumCells(f.b, CountOf) = SumCells(blocks, CountOf) + 1
                /\ SumCells(f.b, RecentOf) =
                       SumCells(blocks, RecentOf) + (IF InsideWindow(Kind, r.date) THEN 1 ELSE 0)

\* C23 restricted to the CSV scripts, which parse the date
C23_CsvRecentIffParsedAndInsideWindow ==
    (pc = "fold" /\ feed = "dates" /\ Kind \in RecencyKinds \ {"UN311"}) =>
        \A r \in InputRows :
            LET f == Fold(Kind, blocks, r, Category)
            IN  SumCells(f.b, RecentOf) =
                    SumCells(blocks, RecentOf) + (IF InsideWindow(Kind, r.date) THEN 1 ELSE 0)

(***************************************************************************)
(* C24: the divisions of the crimes and crashes scores.                    *)
(***************************************************************************)

DividingKinds == {"PNCrimes", "UNCrimes", "PNCrashes", "UNCrashes"}

\* the cells the loop over `filtered` evaluates the score expression for
ScoredCells(kind, b) == Filter(b, Threshold(kind))

\* the values the score expression of a cell divides by, apart from the literals 20 and 50:
\* `/ block['count']` (crimes), `/ block['count'] if block['count'] > 0 else 0` (crashes)
Divisors(kind, c) ==
    IF kind \in {"PNCrimes", "UNCrimes"} THEN {c.count}
    ELSE IF c.count > 0 THEN {c.count} ELSE {}

\* C24: in the crimes and crashes datasets of every script the score expression is evaluated
\* only for cells whose count is at least the filter threshold, which is at least 2, so no
\* score divides by zero; the emitted rows are those cells.
C24_ScoreNeverDividesByZero ==
    Kind \in DividingKinds =>
        /\ Threshold(Kind) >= 2
        /\ pc = "emit" =>
               \A j \in 1..Len(ScoredCells(Kind, blocks)) :
                   LET c == ScoredCells(Kind, blocks)[j].c
                   IN  /\ c.count >= Threshold(Kind)
                       /\ 0 \notin Divisors(Kind, c)
        /\ Emitted =>
               /\ Len(result.out.data) = Len(ScoredCells(Kind, blocks))
               /\ \A i \in 1..Len(result.out.data) : result.out.data[i][3] >= Threshold(Kind)

\* C24 witness: crimes scores are about to be evaluated for one cell while another cell stays
\* below the threshold
C24_Witness ==
    /\ Kind \in {"PNCrimes", "UNCrimes"}
    /\ pc = "emit"
    /\ Len(blocks) = 2
    /\ Len(ScoredCells(Kind, blocks)) = 1
    /\ \E j \in 1..2 : blocks[j].c.count = 1

(***************************************************************************)
(* C27: conservation of records.                                           *)
(***************************************************************************)

Keys(b) == {b[j].key : j \in 1..Len(b)}

CountAt(b, k) == IF Has(b, k) THEN Cell(b, k).count ELSE 0

\* the record passes the classification of its dataset (only the 311 file and the crimes
\* classify before they count; the portal's 311 records are fetched by type)
PassesClassification(kind, r) ==
    CASE kind = "PN311" ->
             LET sr_type == Get(r, "label", "")
             IN  /\ sr_type # NONE
                 /\ ~Contains(Chars(sr_type), INFORMATION_ONLY)
                 /\ ~Contains(Chars(sr_type), AIRCRAFT)
                 /\ Category311(sr_type) # NONE
      [] kind \in {"PNCrimes", "UNCrimes"} -> Get(r, "label", "") # NONE
      [] OTHER -> TRUE

\* the record passes the coordinate checks of its dataset
PassesCoords(kind, r) ==
    IF kind \in {"PAPermits", "PALicenses", "PAPotholes"}
    THEN AcceptCoords(Or(Get(r, "lat", "0"), "0"), Or(Get(r, "lng", "0"), "0"), BlockSizeOf).ok
    ELSE AcceptCoords(Get(r, "lat", "0"), Get(r, "lng", "0"), BlockSizeOf).ok

Accepted(kind, r) == PassesClassification(kind, r) /\ PassesCoords(kind, r)

\* C27: at every point of the fold of a grid dataset every cell has count >= 1 and no key
\* has two cells; a record that passes classification and the coordinate checks adds exactly
\* 1 to the count of exactly one cell, and any other record leaves the cell map as it was.
\* So the sum of count over the cells, 0 before the first record, is the number of records
\* accepted so far.
C27_ConservationOfRecords ==
    (pc = "fold" /\ Kind \in GridKinds) =>
        /\ \A j \in 1..Len(blocks) : blocks[j].c.count >= 1
        /\ \A i, j \in 1..Len(blocks) : blocks[i].key = blocks[j].key => i = j
        /\ \A r \in InputRows :
               LET f == Fold(Kind, blocks, r, Category)
               IN  IF Accepted(Kind, r)
                   THEN /\ SumCells(f.b, CountOf) = SumCells(blocks, CountOf) + 1
                        /\ \E k \in Keys(f.b) :
                               /\ CountAt(f.b, k) = CountAt(blocks, k) + 1
                               /\ \A k2 \in Keys(f.b) \ {k} : CountAt(f.b, k2) = CountAt(blocks, k2)
                        /\ Keys(blocks) \subseteq Keys(f.b)
                   ELSE f.b = blocks

\* C27 witness: in the fold of the 311 file two cells hold three accepted records, and the
\* next record may be accepted, dropped by the classification or dropped by its coordinates
C27_Witness ==
    /\ pc = "fold"
    /\ Kind = "PN311"
    /\ Len(blocks) = 2
    /\ SumCells(blocks, CountOf) = 3
    /\ \E r \in InputRows : Accepted(Kind, r)
    /\ \E r \in InputRows : ~PassesCoords(Kind, r)
    /\ \E r \in InputRows : ~PassesClassification(Kind, r)

(***************************************************************************)
(* C28: recent_count is bounded by count.                                  *)
(***************************************************************************)

\* C28: in every reachable state of the 311, permits and potholes folds of the datasets that
\* track recency, every cell has 0 <= recent_count <= count.
C28_RecentCountWithinCount ==
    (pc \in {"fold", "emit"} /\ Kind \in RecencyKinds) =>
        \A j \in 1..Len(blocks) :
            /\ 0 <= blocks[j].c.recent_count
            /\ blocks[j].c.recent_count <= blocks[j].c.count

\* C28 witness: a cell in the fold with some but not all of its records recent
C28_Witness ==
    /\ pc = "fold"
    /\ Kind \in RecencyKinds
    /\ \E j \in 1..Len(blocks) :
           /\ blocks[j].c.recent_count >= 1
           /\ blocks[j].c.recent_count < blocks[j].c.count

(***************************************************************************)
(* C30: camera violations.                                                 *)
(***************************************************************************)

\* the record has a camera id, a violations value above 0 and two non-zero coordinates
CameraAccepts(r) ==
    LET violations == int_float(Or(Get(r, "n1", "0"), "0"))
        lat == float_coord(Or(Get(r, "lat", "0"), "0"))
        lng == float_coord(Or(Get(r, "lng", "0"), "0"))
    IN  /\ Get(r, "label", "") \notin {"", NONE}
        /\ violations.ok /\ violations.v > 0
        /\ lat.ok /\ lat.v # 0
        /\ lng.ok /\ lng.v # 0

ViolationsAt(d, k) == IF Has(d, k) THEN Cell(d, k).violations ELSE 0

\* the file `out` holds exactly the cameras of d with 100 violations or more, each once and
\* with its total, and its meta.total_violations is the sum over those cameras only
CameraFile(d, out) ==
    /\ \A j \in 1..Len(d) :
           d[j].c.violations >= 100 <=>
               \E i \in 1..Len(out.data) : out.data[i][4] = d[j].key
    /\ \A i \in 1..Len(out.data) :
           /\ Has(d, out.data[i][4])
           /\ out.data[i][3] = ViolationsAt(d, out.data[i][4])
           /\ \A i2 \in 1..Len(out.data) : out.data[i2][4] = out.data[i][4] => i2 = i
    /\ out.meta.cameras = Len(out.data)
    /\ out.meta.total_violations = SumSeq([i \in 1..Len(out.data) |-> out.data[i][3]])
    /\ out.meta.total_violations =
           SumSeq([j \in 1..Len(d) |-> IF d[j].c.violations >= 100 THEN d[j].c.violations ELSE 0])

\* C30: in either camera file a record is accepted only if its camera id is non-empty, its
\* violations value is above 0 and both coordinates are non-zero, with no bounding box; an
\* accepted record adds its violations to the total of its camera and any other record
\* changes nothing, so a camera's total is the sum over its accepted records; a camera is in
\* the output if and only if its total is 100 or more, and meta.total_violations is the sum
\* over the emitted cameras only.
C30_CameraTotalsAndThreshold ==
    Kind = "PACamera" =>
        /\ pc \in {"fold", "fold2"} =>
               \A r \in InputRows :
                   LET f == FoldCamera(blocks, r, pc = "fold")
                       id == Get(r, "label", "")
                   IN  IF CameraAccepts(r)
                       THEN /\ ViolationsAt(f.b, id) =
                                   ViolationsAt(blocks, id) + int_float(r.n1).v
                            /\ \A k \in Keys(f.b) \ {id} : ViolationsAt(f.b, k) = ViolationsAt(blocks, k)
                            /\ Keys(f.b) = Keys(blocks) \cup {id}
                       ELSE f.b = blocks
        /\ pc = "write" =>
               /\ CameraFile(rl_cameras, result.out.redlight)
               /\ CameraFile(blocks, result.out.speed)

\* C30 witness: the red-light output holds one of two cameras, the other has fewer than 100
\* violations, and a record outside the bounding box was accepted
C30_Witness ==
    /\ Kind = "PACamera"
    /\ pc = "write"
    /\ Len(rl_cameras) = 2
    /\ Len(result.out.redlight.data) = 1
    /\ result.out.redlight.meta.total_violations = 100
    /\ \E j \in 1..2 : rl_cameras[j].c.violations \in 1..99 /\ rl_cameras[j].c.lat = 430000

(***************************************************************************)
(* direct-mail-campaign.py: main().                                        *)
(***************************************************************************)

MaxMailRows == 3     \* rows of the campaign file

\* the segments of the test postcards
TestSegments == <<"general", "expired_meter", "street_cleaning">>

\* get_message_segment(top_violation), for a string
get_message_segment(top_violation) ==
    LET v == Upper(Chars(top_violation))
    IN  IF Contains(v, Chars("METER")) /\ (Contains(v, Chars("CENTRAL")) \/ Contains(v, Chars("NON-CENTRAL")))
        THEN "expired_meter"
        ELSE IF Contains(v, Chars("STREET CLEANING")) THEN "street_cleaning"
        ELSE IF Contains(v, Chars("PERMIT")) THEN "permit_parking"
        ELSE IF Contains(v, Chars("EXPIRED PLATE")) \/ Contains(v, Chars("REGISTRATION")) THEN "expired_plate"
        ELSE IF Contains(v, Chars("CITY STICKER")) THEN "no_city_sticker"
        ELSE "general"

\* the rows csv.DictReader yields: a complete row, a complete row with an empty
\* top_violation, and a row that ends after address_line1 (None for the columns it lacks);
\* a column the header lacks is no key of any row
RowKinds == {"meter", "plain", "short"}

Names == <<"A", "B", "C", "D">>

MailRow(kind, name, header) ==
    [name |-> name,
     address_line1 |-> "1 Main St",
     zip |-> IF header = "nozip" THEN MISSING ELSE IF kind = "short" THEN NONE ELSE "60601",
     top_violation |-> CASE kind = "meter" -> "Expired Meter Central Business District"
                         [] kind = "plain" -> ""
                         [] kind = "short" -> NONE]

CampaignFiles == UNION {[1..n -> RowKinds] : n \in 0..MaxMailRows}

\* load_campaign_csv(filepath)
load_campaign_csv(file) == [j \in 1..Len(file.rows) |-> MailRow(file.rows[j], Names[j], file.header)]

\* rs[:n]
PySlice(rs, n) ==
    IF n >= 0 THEN SubSeq(rs, 1, Min(n, Len(rs)))
    ELSE SubSeq(rs, 1, IF Len(rs) + n > 0 THEN Len(rs) + n ELSE 0)

\* rs[:n], unconditionally
LimitAlways(rs, limit) == IF limit = <<>> THEN rs ELSE PySlice(rs, limit[1])

\* if args.limit: rows = rows[:args.limit]
Limited(rs, limit) == IF limit = <<>> \/ limit[1] = 0 THEN rs ELSE PySlice(rs, limit[1])

\* the loop body raises before it sends: None.upper() in get_message_segment, or
\* row['zip'] for a file without that column
BodyRaises(row) == Get(row, "top_violation", "") = NONE \/ row.zip = MISSING

\* the request send_postcard issues, with the answer of urlopen: "ok" (a JSON body),
\* "http_error" (HTTPError, lob_request returns None) or "url_error" (any other URLError)
PostcardRequest(to, segment, answer) ==
    [to |-> to, segment |-> segment, key |-> api_key, answer |-> answer]

\* the neighbourhood scripts are not running
GridIdle ==
    /\ script = "PN"
    /\ mode = "unit"
    /\ feed = "abort"
    /\ pidx = 1
    /\ pc = "idle"
    /\ ti = 0
    /\ blocks = <<>>
    /\ rl_cameras = <<>>
    /\ fetches = {}
    /\ result = Running
    /\ files = [f \in OutputFiles |-> Old]
    /\ success = "unset"
    /\ exitcode = -1
    /\ calls = <<>>

\* after parser.parse_args()
InitMail ==
    /\ GridIdle
    /\ args \in [test : BOOLEAN, dry_run : BOOLEAN, tier : {NONE, "hot"},
                 limit : {<<>>, <<0>>, <<1>>, <<2>>}, csv : BOOLEAN]
    /\ api_key \in {NONE, "test_", "live_"}
    /\ input \in [exists : {TRUE}, header : {"full", "nozip"}, rows : CampaignFiles]
                 \cup {[exists |-> FALSE, header |-> "full", rows |-> <<>>]}
    /\ mpc = "main"
    /\ rows = <<>>
    /\ row_i = 0
    /\ sent = 0
    /\ errors = 0
    /\ lob = <<>>
    /\ outcome = "running"

\* main() ends
End(how) == mpc' = "end" /\ outcome' = how

\* if not api_key: ... sys.exit(1)
NoApiKey ==
    /\ mpc = "main" /\ api_key = NONE
    /\ End("exit 1")
    /\ UNCHANGED <<gridvars, args, api_key, input, rows, row_i, sent, errors, lob>>

\* if args.test:
EnterTest ==
    /\ mpc = "main" /\ api_key # NONE /\ args.test
    /\ mpc' = "test"
    /\ row_i' = 0
    /\ UNCHANGED <<gridvars, args, api_key, input, rows, sent, errors, lob, outcome>>

\* one pass of `for seg in [...]`: the result is only printed
SendTest ==
    /\ mpc = "test" /\ row_i < Len(TestSegments)
    /\ \E answer \in {"ok", "http_error"} :
           lob' = Append(lob, PostcardRequest("Test Recipient", TestSegments[row_i + 1], answer))
    /\ row_i' = row_i + 1
    /\ UNCHANGED <<gridvars, args, api_key, input, mpc, rows, sent, errors, outcome>>

\* urlopen raises an error that is no HTTPError
SendTestFails ==
    /\ mpc = "test" /\ row_i < Len(TestSegments)
    /\ lob' = Append(lob, PostcardRequest("Test Recipient", TestSegments[row_i + 1], "url_error"))
    /\ End("raised")
    /\ UNCHANGED <<gridvars, args, api_key, input, rows, row_i, sent, errors>>

TestComplete ==
    /\ mpc = "test" /\ row_i = Len(TestSegments)
    /\ End("returned")
    /\ UNCHANGED <<gridvars, args, api_key, input, rows, row_i, sent, errors, lob>>

\* if args.csv: rows = load_campaign_csv(args.csv); if args.limit: rows = rows[:args.limit]
LoadCsv ==
    /\ mpc = "main" /\ api_key # NONE /\ ~args.test /\ args.csv
    /\ input.exists
    /\ rows' = Limited(load_campaign_csv(input), args.limit)
    /\ mpc' = "csv"
    /\ UNCHANGED <<gridvars, args, api_key, input, row_i, sent, errors, lob, outcome>>

\* open(filepath) raises FileNotFoundError
LoadCsvFails ==
    /\ mpc = "main" /\ api_key # NONE /\ ~args.test /\ args.csv
    /\ ~input.exists
    /\ End("raised")
    /\ UNCHANGED <<gridvars, args, api_key, input, rows, row_i, sent, errors, lob>>

\* if args.dry_run: print the first 10 rows and the total; return
DryRunCsv ==
    /\ mpc = "csv" /\ args.dry_run
    /\ End(IF \E j \in 1..Len(rows) : BodyRaises(rows[j]) THEN "raised" ELSE "returned")
    /\ UNCHANGED <<gridvars, args, api_key, input, rows, row_i, sent, errors, lob>>

\* sent = 0; errors = 0; for i, row in enumerate(rows):
StartSending ==
    /\ mpc = "csv" /\ ~args.dry_run
    /\ mpc' = "send"
    /\ row_i' = 0 /\ sent' = 0 /\ errors' = 0
    /\ UNCHANGED <<gridvars, args, api_key, input, rows, lob, outcome>>

\* one pass of the loop: result = send_postcard(...); if result: sent += 1 else: errors += 1
SendRow ==
    /\ mpc = "send" /\ row_i < Len(rows)
    /\ LET row == rows[row_i + 1]
       IN  /\ ~BodyRaises(row)
           /\ \E answer \in {"ok", "http_error"} :
                  /\ lob' = Append(lob, PostcardRequest(Get(row, "name", "Current Resident"),
                                                        get_message_segment(Get(row, "top_violation", "")),
                                                        answer))
                  /\ sent' = IF answer = "ok" THEN sent + 1 ELSE sent
                  /\ errors' = IF answer = "ok" THEN errors ELSE errors + 1
    /\ row_i' = row_i + 1
    /\ UNCHANGED <<gridvars, args, api_key, input, mpc, rows, outcome>>

\* the loop body raises AttributeError or KeyError before the request
SendRowRaises ==
    /\ mpc = "send" /\ row_i < Len(rows)
    /\ BodyRaises(rows[row_i + 1])
    /\ End("raised")
    /\ UNCHANGED <<gridvars, args, api_key, input, rows, row_i, sent, errors, lob>>

\* urlopen raises an error that is no HTTPError: lob_request does not catch it
SendRowFails ==
    /\ mpc = "send" /\ row_i < Len(rows)
    /\ LET row == rows[row_i + 1]
       IN  /\ ~BodyRaises(row)
           /\ lob' = Append(lob, PostcardRequest(Get(row, "name", "Current Resident"),
                                                 get_message_segment(Get(row, "top_violation", "")),
                                                 "url_error"))
    /\ End("raised")
    /\ UNCHANGED <<gridvars, args, api_key, input, rows, row_i, sent, errors>>

\* print(f"\nDone! Sent: {sent}, Errors: {errors}"); return
SendDone ==
    /\ mpc = "send" /\ row_i = Len(rows)
    /\ End("returned")
    /\ UNCHANGED <<gridvars, args, api_key, input, rows, row_i, sent, errors, lob>>

\* if args.tier: the campaign file is missing: sys.exit(1)
TierFileMissing ==
    /\ mpc = "main" /\ api_key # NONE /\ ~args.test /\ ~args.csv /\ args.tier # NONE
    /\ ~input.exists
    /\ End("exit 1")
    /\ UNCHANGED <<gridvars, args, api_key, input, rows, row_i, sent, errors, lob>>

\* if args.tier: load, limit, print the segment analysis (and the samples of a dry run)
TierReport ==
    /\ mpc = "main" /\ api_key # NONE /\ ~args.test /\ ~args.csv /\ args.tier # NONE
    /\ input.exists
    /\ rows' = Limited(load_campaign_csv(input), args.limit)
    /\ End(IF \/ \E j \in 1..Len(rows') : Get(rows'[j], "top_violation", "") = NONE
              \/ args.dry_run /\ \E j \in 1..Len(rows') : rows'[j].zip = MISSING
           THEN "raised" ELSE "returned")
    /\ UNCHANGED <<gridvars, args, api_key, input, row_i, sent, errors, lob>>

\* parser.print_help()
NoMode ==
    /\ mpc = "main" /\ api_key # NONE /\ ~args.test /\ ~args.csv /\ args.tier = NONE
    /\ End("returned")
    /\ UNCHANGED <<gridvars, args, api_key, input, rows, row_i, sent, errors, lob>>

NextMail ==
    \/ NoApiKey
    \/ EnterTest
    \/ SendTest
    \/ SendTestFails
    \/ TestComplete
    \/ LoadCsv
    \/ LoadCsvFails
    \/ DryRunCsv
    \/ StartSending
    \/ SendRow
    \/ SendRowRaises
    \/ SendRowFails
    \/ SendDone
    \/ TierFileMissing
    \/ TierReport
    \/ NoMode

SpecMail == InitMail /\ [][NextMail]_vars

(***************************************************************************)
(* C25, C26, C29: the postcards sent by direct-mail-campaign.py.           *)
(***************************************************************************)

\* C25: in a run with --dry-run no postcard request is issued to Lob, whatever other flags
\* are given and whether the key is a test key or a live key.
C25_DryRunSendsNothing == args.dry_run => lob = <<>>

\* C25 without --test: a dry run of the CSV mode or of the tier mode issues no request
C25_DryRunWithoutTestSendsNothing == (args.dry_run /\ ~args.test) => lob = <<>>

\* C26: in a run with --limit N, N >= 0, at most N postcard requests are issued, in every
\* mode.
C26_LimitBoundsRequests == args.limit # <<>> => Len(lob) <= args.limit[1]

\* C26 for a positive N outside the test mode
C26_PositiveLimitBoundsRequests ==
    (args.limit # <<>> /\ args.limit[1] > 0 /\ ~args.test) => Len(lob) <= args.limit[1]

\* a run of the CSV mode that sends
CsvSendRun == api_key # NONE /\ ~args.test /\ args.csv /\ ~args.dry_run /\ input.exists

CountAnswers(answer) == Cardinality({j \in 1..Len(lob) : lob[j].answer = answer})

\* every row processed so far had one request, in file order, counted in sent or in errors
OneAttemptPerRow(n) ==
    /\ Len(lob) = n
    /\ \A j \in 1..n : lob[j].to = rows[j].name
    /\ sent = CountAnswers("ok")
    /\ errors = CountAnswers("http_error")
    /\ sent + errors = n

\* C29: in the CSV send mode every loaded row (after the limit) gets exactly one send
\* attempt, in file order; a Lob HTTP error on a row is counted in errors and does not stop
\* the attempts for the later rows; at the end sent + errors is the number of rows.
C29_EveryRowAttemptedOnce ==
    /\ (CsvSendRun /\ mpc = "send") => OneAttemptPerRow(row_i)
    /\ (CsvSendRun /\ mpc = "end") => OneAttemptPerRow(Len(rows))

\* C29 for the runs in which the loop finishes
C29_EveryRowAttemptedOnceIfLoopFinishes ==
    /\ (CsvSendRun /\ mpc = "send") => OneAttemptPerRow(row_i)
    /\ (CsvSendRun /\ mpc = "end" /\ outcome = "returned") => OneAttemptPerRow(Len(rows))

====
